---- MODULE Spec2Model ----
(***************************************************************************)
(* Model of the WHISTLE relay hub                                          *)
(* (src/infrastructure/relay-server/src/database.ts): the connection       *)
(* registry, the load-balancing router, the pending-call map and the       *)
(* per-wallet statistics with their durable store.                         *)
(*                                                                         *)
(* One action is one event-loop turn of the hub: a handler runs to its     *)
(* next await.  The continuation of `await sendToNode` runs as a microtask *)
(* of the turn that settles the promise, so it belongs to that action.     *)
(* Time (Date.now) is the variable now, in milliseconds; it advances only  *)
(* by Tick, and never past the deadline of an armed setTimeout.            *)
(*                                                                         *)
(* Fields of ConnectedNode that no handler reads back to take a decision   *)
(* (name, bondAmount, pendingEarnings, totalEarned, location) are left     *)
(* out.  ws.send on a socket that is no longer open is a silent drop       *)
(* (ws 8, the version that exports WebSocketServer).  The latency EMAs are *)
(* computed in exact integer arithmetic.                                   *)
(***************************************************************************)
EXTENDS Integers, Sequences, FiniteSets, TLC

\* ------------------------------------------------------------- bounds
MaxConns == 4
MaxCalls == 7
\* Sockets and inbound calls of the registry specification.
RegistryConns == 3
RegistryCalls == 1
\* Sockets and inbound calls of the durable-store specification.
DurableConns == 2
DurableCalls == 2
\* Sockets, inbound calls and clock horizon (seconds) of the uptime
\* specification.
UptimeConns == 2
UptimeCalls == 1
MaxSeconds == 3
\* Sockets of the router specification, and the horizon of its clock in
\* steps of ROUTER_STEP_MS.
RouterConns == 2
RouterCalls == 3
MaxRouterSteps == 1
\* Sockets and inbound calls of the pending-call specification, and the
\* horizon of its clock in steps of PENDING_STEP_MS.
PendingConns == 1
PendingCalls == 2
MaxPendingSteps == 4

\* The authentication specification: sockets and inbound calls.
AuthConns == 2
AuthCalls == 1

\* The stale-ping specification: sockets, inbound calls, and the horizon of
\* its clock in steps of STALE_STEP_MS.
StaleConns == 1
StaleCalls == 2
MaxStaleSteps == 2

\* The node-agent specification: rpc_request messages handled (a run of
\* requests for fresh keys counts as one), and the horizon of its clock in
\* steps of AGENT_STEP_MS.
MaxAgentRequests == 4
MaxAgentSteps == 1

\* The address specification: sockets, inbound calls and clock horizon
\* (seconds).
AddressConns == 2
AddressCalls == 2
MaxAddressSeconds == 1

\* The node agent's link to the relays: the sockets the agent opens (calls
\* of connect()), and the faults that reach the process handlers.
MaxSockets == 4
MaxFaults == 1

\* The fast pool: sockets, each of a wallet of its own, the sockets among
\* them that their node closes, and inbound calls.
PoolConns == 4
PoolClosers == 2
PoolCalls == 3

\* Calls that fail: sockets, inbound calls, the calls the clients keep open
\* at a time, and the horizon of the clock in steps of REQUEST_TIMEOUT_MS.
FailingConns == 2
FailingCalls == 7
FailingInFlight == 1
MaxFailingSteps == 1

\* The connection set-up: sockets and inbound calls.
LookupConns == 2
LookupCalls == 1
\* Sockets and routed calls of the hub serving the shipped node client.
ClientConns == 3
ClientCalls == 2
\* Sockets and routed calls of the hub whose nodes answer from their cache.
HitConns == 2
HitCalls == 2

\* The wallet counters under displacement, closes and timeouts: connections,
\* routed calls, and clock steps of 10 seconds.
CounterConns == 2
CounterCalls == 2
MaxCounterSteps == 3

\* ------------------------------------------------- program constants
REQUEST_TIMEOUT_MS == 30000
PING_STALE_MS == 120000
SIGNATURE_WINDOW_MS == 300000
SIGNATURE_LENGTH == 64
MIN_REQUESTS_FOR_HEALTH == 5
MAX_AVG_LATENCY_MS == 3000
NEUTRAL_LATENCY_MS == 500
MIN_FAST_POOL == 3
LATENCY_CAP_MS == 5000
\* node.js
CACHE_MAX_SIZE == 5000
DEFAULT_TTL == 1000

\* node.js, the link to the relays
RELAY_COUNT == 3
MAX_FAILS_BEFORE_SWITCH == 3
BACKOFF_BASE_MS == 2000
BACKOFF_CAP_MS == 30000
FAULT_RETRY_MS == 5000
HEALTH_CHECK_MS == 30000
STALE_PING_MS == 60000
FORCE_RECONNECT_MS == 120000

\* One step of the clock of the router and of the pending-call
\* specification: 10 seconds.
ROUTER_STEP_MS == 10 * 1000
PENDING_STEP_MS == 10 * 1000
\* One step of the clock of the stale-ping specification: 60 seconds.
STALE_STEP_MS == 60 * 1000
\* One step of the clock of the node-agent specification: 500 ms, the
\* shortest TTL of the table.
AGENT_STEP_MS == 5 * 100

Conns == 1..MaxConns
CallIds == 1..MaxCalls
Wallets == {"W1", "W2"}
\* msg.wallet absent, and node.operator before any register.
NoWallet == ""
\* PersistedStats.lastIP when undefined.
NoIP == ""

VARIABLES
  now,                 \* Date.now(), ms
  requireRegistration, \* REQUIRE_REGISTRATION
  onChainActive,       \* wallets whose on-chain account exists and isActive
  sock,                \* per connection: "none" | "open" | "closing" | "closed"
  node,                \* per connection: the ConnectedNode object of its closure
  regWait,             \* per connection: wallet of the register handler suspended
                       \*   at `await getOnChainNodeAccount`, or NoWallet
  sent,                \* per connection: the last registration reply sent on it
  connectedNodes,      \* Map nodeId -> node, as the sequence of its keys
  nodesByWallet,       \* Map wallet -> nodeId, as a function on its keys
  walletStats,         \* Map wallet -> PersistedStats, as a function on its keys
  dbWalletStats,       \* rows of the SQLite table wallet_stats
  statsFile,           \* content of the JSON fallback file wallet-stats.json
  dbGlobalStats,       \* the row of the SQLite table global_stats
  globalStats,         \* the in-memory GlobalStats
  roundRobinIndex,
  totalRequestsEver,
  pendingRequests,     \* per connection: ids in node.pendingRequests
  timers,              \* ids whose 30 s setTimeout is armed
  cache,               \* node agent: the Map `cache` in insertion order
  fetching,            \* node agent: the requests suspended at `await fetchRPC`
  storedAt,            \* node agent: per key, the time of its last cache.set
                       \*   (-1: never); kept when the entry is evicted
  requests,            \* node agent: how many rpc_request messages were handled
                       \*   (session.requests, counted at arrival)
  lastDone,            \* node agent: the request whose upstream call ended
                       \*   last, with its outcome (NoRequest: none yet)
  ws,                  \* node agent: the socket in `ws`:
                       \*   null | connecting | open | closed (its close
                       \*   event was handled)
  wsRelay,             \* node agent: the index of the relay `ws` was opened to
  superseded,          \* node agent: per relay, the sockets connect() closed
                       \*   and replaced whose close event is still to come
  connected,           \* node agent: connected
  reconnectAttempts,   \* node agent: reconnectAttempts
  currentRelayIndex,   \* node agent: currentRelayIndex
  lastPingAge,         \* node agent: Date.now() - lastPing, ms
  connectTimers,       \* node agent: the pending setTimeout(connect, d), as
                       \*   the ms left to each, ascending
  healthIn,            \* node agent: ms left to the next run of the
                       \*   health-check setInterval
  failures,            \* node agent: close events of sockets opened to the
                       \*   current relay since it became current or a socket
                       \*   to it last opened (history)
  faults,              \* node agent: how many faults reached the process
                       \*   handlers (history)
  sockets,             \* node agent: how many sockets connect() opened
                       \*   (history)
  registerMsg,         \* per connection: the register message its node
                       \*   sends in onOpen: none | sent | delivered (to the
                       \*   hub's message handler) | dropped (emitted while
                       \*   no handler was attached)
  calls                \* per call id: the inbound HTTP call and its outcome:
                       \*   phase   free | inflight | done | aborted
                       \*   node    the connection it was dispatched to (0: none)
                       \*   pool    the fastPool it was drawn from
                       \*   leftOut whether a candidate failed the health
                       \*           filter or fell outside the pool
                       \*   start   startTime
                       \*   response the kind of the rpc_response that found
                       \*           its pending entry (none: no such response)
                       \*   reply   none | 503 | 200 | 500 | timeout (a 500 whose
                       \*           error is 'Request timeout'), sent at replyAt
                       \*   replies how many HTTP responses were sent

socketVars ==
  <<ws, wsRelay, superseded, connected, reconnectAttempts, currentRelayIndex,
    lastPingAge, connectTimers, healthIn, failures, faults, sockets>>
linkVars == <<socketVars, registerMsg>>

vars == <<now, requireRegistration, cache, fetching, storedAt, requests, lastDone, linkVars,
          onChainActive, sock, node, regWait, sent,
          connectedNodes, nodesByWallet, walletStats, dbWalletStats, statsFile, dbGlobalStats,
          globalStats, roundRobinIndex, totalRequestsEver, pendingRequests,
          timers, calls>>

\* ------------------------------------------------------------ helpers
Max(a, b) == IF a >= b THEN a ELSE b
Min(a, b) == IF a <= b THEN a ELSE b
\* Math.ceil(n / 2)
CeilHalf(n) == (n + 1) \div 2
\* Math.floor(ms / 1000)
FloorSeconds(ms) == ms \div 1000

\* Map.set(k, v) on a map kept as a function on its keys.
MapSet(m, k, v) == [x \in (DOMAIN m) \cup {k} |-> IF x = k THEN v ELSE m[x]]
\* Map.delete(k)
MapDelete(m, k) == [x \in (DOMAIN m) \ {k} |-> m[x]]
EmptyMap == [x \in {} |-> 0]

SeqToSet(s) == {s[i] : i \in 1..Len(s)}
\* Map.delete on the key sequence: the order of the other keys is kept.
SeqRemove(s, x) == SelectSeq(s, LAMBDA y : y # x)
\* Map.set on the key sequence: a key already present keeps its place.
SeqAdd(s, x) == IF x \in SeqToSet(s) THEN s ELSE Append(s, x)

ZeroStats ==
  [requestsHandled |-> 0, avgLatencyMs |-> 0, cacheHits |-> 0,
   cacheMisses |-> 0, errors |-> 0]

\* The node object built by wss.on('connection').
NewNode(ip) ==
  [operator |-> NoWallet, isRegistered |-> FALSE, connectedAt |-> now,
   lastPing |-> now, ip |-> ip, flushedAt |-> -1, stats |-> ZeroStats]

FreeCall ==
  [phase |-> "free", node |-> 0, pool |-> {}, leftOut |-> FALSE, start |-> 0,
   response |-> "none", reply |-> "none", replyAt |-> 0, replies |-> 0]

InitGlobalStats ==
  [totalDataServed |-> 0, totalRequests |-> 0, totalErrors |-> 0]

\* ------------------------------------------------ signature check
\* A signature as verifySignature sees it: absent (falsy), or its length and
\* whether /^[0-9a-f]+$/i matches it.
NoSignature == [present |-> FALSE, len |-> 0, hex |-> FALSE]
Signatures ==
  {NoSignature,
   [present |-> TRUE, len |-> SIGNATURE_LENGTH, hex |-> TRUE],
   [present |-> TRUE, len |-> 2, hex |-> FALSE]}

\* verifySignature(wallet, timestamp, signature); |now - timestamp| is skew.
verifySignature(skew, signature) ==
  IF skew > SIGNATURE_WINDOW_MS THEN FALSE
  ELSE signature.present /\ signature.len = SIGNATURE_LENGTH /\ signature.hex

\* msg.signature of the register message the node client sends: 'v2'.
clientSignature == [present |-> TRUE, len |-> 2, hex |-> FALSE]

\* persistWalletStats writing the session's counters over the entry's.
persistWalletStats_overwrite(m, wallet, stats, connectedAt) ==
  IF wallet \in DOMAIN m
  THEN MapSet(m, wallet,
         [m[wallet] EXCEPT
            !.requestsHandled = stats.requestsHandled,
            !.cacheHits = stats.cacheHits,
            !.cacheMisses = stats.cacheMisses,
            !.errors = stats.errors])
  ELSE MapSet(m, wallet,
         [requestsHandled |-> stats.requestsHandled,
          avgLatencyMs |-> stats.avgLatencyMs,
          cacheHits |-> stats.cacheHits,
          cacheMisses |-> stats.cacheMisses,
          errors |-> stats.errors,
          totalUptime |-> FloorSeconds(now - connectedAt),
          lastDisconnect |-> 0,
          firstConnect |-> connectedAt,
          lastIP |-> NoIP])

\* ------------------------------------------- connection set-up
\* wss.on('connection') up to `await getLocation(ip)`: the socket is open
\* to the node, whose onOpen sends the register message, while the hub has
\* attached no handler to it yet.
ConnectLookup(c, ip) ==
  /\ sock[c] = "none"
  /\ \A d \in Conns : d < c => sock[d] # "none"
  /\ sock' = [sock EXCEPT ![c] = "locating"]
  /\ node' = [node EXCEPT ![c].ip = ip]
  /\ registerMsg' = [registerMsg EXCEPT ![c] = "sent"]
  /\ UNCHANGED <<now, requireRegistration, cache, fetching, storedAt, requests,
                 lastDone, socketVars, onChainActive, regWait, sent,
                 connectedNodes, nodesByWallet, walletStats, dbWalletStats,
                 statsFile, dbGlobalStats, globalStats, roundRobinIndex,
                 totalRequestsEver, pendingRequests, timers, calls>>

\* getLocation returned: the node object is built and ws.on('message'),
\* ws.on('close') are attached.
LookupDone(c) ==
  /\ sock[c] = "locating"
  /\ sock' = [sock EXCEPT ![c] = "open"]
  /\ node' = [node EXCEPT ![c] = NewNode(node[c].ip)]
  /\ UNCHANGED <<now, requireRegistration, cache, fetching, storedAt, requests,
                 lastDone, linkVars, onChainActive, regWait, sent,
                 connectedNodes, nodesByWallet, walletStats, dbWalletStats,
                 statsFile, dbGlobalStats, globalStats, roundRobinIndex,
                 totalRequestsEver, pendingRequests, timers, calls>>

\* The register message is read from socket c and ws emits 'message': the
\* handler gets it if it is attached, otherwise the event has no listener.
RegisterArrives(c) ==
  /\ registerMsg[c] = "sent"
  /\ sock[c] \in {"locating", "open"}
  /\ registerMsg' = [registerMsg EXCEPT ![c] =
        IF sock[c] = "locating" THEN "dropped" ELSE "delivered"]
  /\ UNCHANGED <<now, requireRegistration, cache, fetching, storedAt, requests,
                 lastDone, socketVars, onChainActive, sock, node, regWait, sent,
                 connectedNodes, nodesByWallet, walletStats, dbWalletStats,
                 statsFile, dbGlobalStats, globalStats, roundRobinIndex,
                 totalRequestsEver, pendingRequests, timers, calls>>

\* ------------------------------------------------------ wallet stats
\* persistWalletStats(wallet, stats, connectedAt) on the map m.
persistWalletStats(m, wallet, stats, connectedAt) ==
  IF wallet \in DOMAIN m
  THEN LET existing == m[wallet] IN
       MapSet(m, wallet,
         [existing EXCEPT
            !.requestsHandled = Max(@, stats.requestsHandled),
            !.cacheHits = Max(@, stats.cacheHits),
            !.cacheMisses = Max(@, stats.cacheMisses),
            !.errors = Max(@, stats.errors),
            !.avgLatencyMs =
               IF stats.avgLatencyMs > 0
               THEN (IF @ = 0 THEN stats.avgLatencyMs
                     ELSE (@ * 7 + stats.avgLatencyMs * 3) \div 10)
               ELSE @])
  ELSE MapSet(m, wallet,
         [requestsHandled |-> stats.requestsHandled,
          avgLatencyMs |-> stats.avgLatencyMs,
          cacheHits |-> stats.cacheHits,
          cacheMisses |-> stats.cacheMisses,
          errors |-> stats.errors,
          totalUptime |-> FloorSeconds(now - connectedAt),
          lastDisconnect |-> 0,
          firstConnect |-> connectedAt,
          lastIP |-> NoIP])

\* The wallet-stats part of ws.on('close') for the node object n.
closeWalletStats(m, n) ==
  LET sessionUptime == FloorSeconds(now - n.connectedAt) IN
  IF n.operator \in DOMAIN m
  THEN MapSet(m, n.operator,
         [m[n.operator] EXCEPT
            !.totalUptime = @ + sessionUptime,
            !.lastDisconnect = now,
            !.lastIP = n.ip,
            !.requestsHandled = Max(@, n.stats.requestsHandled),
            !.cacheHits = Max(@, n.stats.cacheHits),
            !.cacheMisses = Max(@, n.stats.cacheMisses),
            !.errors = Max(@, n.stats.errors)])
  ELSE MapSet(m, n.operator,
         [requestsHandled |-> n.stats.requestsHandled,
          avgLatencyMs |-> n.stats.avgLatencyMs,
          cacheHits |-> n.stats.cacheHits,
          cacheMisses |-> n.stats.cacheMisses,
          errors |-> n.stats.errors,
          totalUptime |-> sessionUptime,
          lastDisconnect |-> now,
          firstConnect |-> n.connectedAt,
          lastIP |-> n.ip])

\* restoredStats carrying avgLatencyMs and errors over whatever the IP.
restoredStats_noReset(p, ip) ==
  [requestsHandled |-> p.requestsHandled,
   avgLatencyMs |-> p.avgLatencyMs,
   cacheHits |-> p.cacheHits,
   cacheMisses |-> p.cacheMisses,
   errors |-> p.errors]

\* The counters a registering node takes from its wallet's record p
\* ("RESTORE PERSISTED STATS"), with the reset on a changed IP.
restoredStats(p, ip) ==
  LET differentIP == p.lastIP # NoIP /\ p.lastIP # ip IN
  [requestsHandled |-> p.requestsHandled,
   avgLatencyMs |-> IF differentIP THEN 0 ELSE p.avgLatencyMs,
   cacheHits |-> p.cacheHits,
   cacheMisses |-> p.cacheMisses,
   errors |-> IF differentIP THEN 0 ELSE p.errors]

\* ------------------------------------------------- connection registry
\* oldNode.ws.close() / ws.close(): an open socket starts closing; its
\* 'close' event is delivered later.  No effect on any other socket state.
wsClose(s, c) == IF s[c] = "open" THEN [s EXCEPT ![c] = "closing"] ELSE s

\* wss.on('connection'): a node opens socket c from address ip.
Connect(c, ip) ==
  /\ sock[c] = "none"
  /\ \A d \in Conns : d < c => sock[d] # "none"
  /\ sock' = [sock EXCEPT ![c] = "open"]
  /\ node' = [node EXCEPT ![c] = NewNode(ip)]
  /\ UNCHANGED <<now, requireRegistration, cache, fetching, storedAt, requests, lastDone, linkVars, onChainActive, regWait, sent,
                 connectedNodes, nodesByWallet, walletStats, dbWalletStats,
                 statsFile, dbGlobalStats, globalStats, roundRobinIndex, totalRequestsEver,
                 pendingRequests, timers, calls>>

\* case 'register', from "Update node info" to the `registered` reply: the
\* part that runs once the on-chain account (active or not) is known.
completeRegister(c, wallet, active) ==
  LET oldNodeId == IF wallet \in DOMAIN nodesByWallet
                   THEN nodesByWallet[wallet] ELSE 0
      displaces == /\ oldNodeId # 0
                   /\ oldNodeId # c
                   /\ oldNodeId \in SeqToSet(connectedNodes)
      stats1 == IF displaces
                THEN persistWalletStats(walletStats, wallet,
                       node[oldNodeId].stats, node[oldNodeId].connectedAt)
                ELSE walletStats
      notRegistered == ~active /\ requireRegistration
      registered == IF active THEN TRUE
                    ELSE IF requireRegistration THEN node[c].isRegistered
                    ELSE TRUE
  IN
  /\ walletStats' = stats1
  /\ sock' = IF displaces THEN wsClose(sock, oldNodeId) ELSE sock
  /\ node' = [node EXCEPT
        ![c].operator = wallet,
        ![c].isRegistered = registered,
        ![c].stats = IF wallet \in DOMAIN stats1
                     THEN restoredStats(stats1[wallet], node[c].ip)
                     ELSE @]
  /\ nodesByWallet' = MapSet(nodesByWallet, wallet, c)
  /\ connectedNodes' =
        SeqAdd(IF displaces THEN SeqRemove(connectedNodes, oldNodeId)
               ELSE connectedNodes, c)
  /\ sent' = [sent EXCEPT ![c] =
        IF notRegistered THEN {"not_registered", "registered"}
        ELSE {"registered"}]

\* ws.on('message'), case 'register', up to `await getOnChainNodeAccount`.
\* skew is |Date.now() - msg.timestamp|.
RegisterMsg(c, wallet, skew, signature) ==
  /\ sock[c] = "open"
  /\ regWait[c] = NoWallet
  /\ IF wallet = NoWallet
        \/ (requireRegistration /\ signature.present
            /\ ~verifySignature(skew, signature))
     THEN /\ sent' = [sent EXCEPT ![c] = {"auth_failed"}]
          /\ sock' = wsClose(sock, c)
          /\ UNCHANGED <<node, regWait, connectedNodes, nodesByWallet,
                         walletStats>>
     ELSE IF requireRegistration
     THEN /\ regWait' = [regWait EXCEPT ![c] = wallet]
          /\ UNCHANGED <<sock, node, sent, connectedNodes, nodesByWallet,
                         walletStats>>
     ELSE /\ completeRegister(c, wallet, FALSE)
          /\ UNCHANGED regWait
  /\ UNCHANGED <<now, requireRegistration, cache, fetching, storedAt, requests, lastDone, linkVars, onChainActive, dbWalletStats,
                 statsFile, dbGlobalStats, globalStats, roundRobinIndex, totalRequestsEver,
                 pendingRequests, timers, calls>>

\* The register handler of socket c resumes after the on-chain lookup.
RegisterFinish(c) ==
  /\ regWait[c] # NoWallet
  /\ completeRegister(c, regWait[c], regWait[c] \in onChainActive)
  /\ regWait' = [regWait EXCEPT ![c] = NoWallet]
  /\ UNCHANGED <<now, requireRegistration, cache, fetching, storedAt, requests, lastDone, linkVars, onChainActive, dbWalletStats,
                 statsFile, dbGlobalStats, globalStats, roundRobinIndex, totalRequestsEver,
                 pendingRequests, timers, calls>>

\* case 'pong'
Pong(c) ==
  /\ sock[c] = "open"
  /\ node[c].lastPing # now
  /\ node' = [node EXCEPT ![c].lastPing = now]
  /\ UNCHANGED <<now, requireRegistration, cache, fetching, storedAt, requests, lastDone, linkVars, onChainActive, sock, regWait, sent,
                 connectedNodes, nodesByWallet, walletStats, dbWalletStats,
                 statsFile, dbGlobalStats, globalStats, roundRobinIndex, totalRequestsEver,
                 pendingRequests, timers, calls>>

\* The peer closes socket c, or its link drops: the 'close' event is queued.
CloseRemote(c) ==
  /\ sock[c] = "open"
  /\ sock' = [sock EXCEPT ![c] = "closing"]
  /\ UNCHANGED <<now, requireRegistration, cache, fetching, storedAt, requests, lastDone, linkVars, onChainActive, node, regWait, sent,
                 connectedNodes, nodesByWallet, walletStats, dbWalletStats,
                 statsFile, dbGlobalStats, globalStats, roundRobinIndex, totalRequestsEver,
                 pendingRequests, timers, calls>>

\* ws.on('close') of socket c.  flushedAt keeps the Date.now() at which the
\* handler flushed the session of a node that had an operator.
CloseEvent(c) ==
  /\ sock[c] = "closing"
  /\ sock' = [sock EXCEPT ![c] = "closed"]
  /\ IF node[c].operator # NoWallet
     THEN /\ walletStats' = closeWalletStats(walletStats, node[c])
          /\ nodesByWallet' = MapDelete(nodesByWallet, node[c].operator)
          /\ node' = [node EXCEPT ![c].flushedAt = now]
     ELSE UNCHANGED <<walletStats, nodesByWallet, node>>
  /\ connectedNodes' = SeqRemove(connectedNodes, c)
  /\ UNCHANGED <<now, requireRegistration, cache, fetching, storedAt, requests, lastDone, linkVars, onChainActive, regWait, sent,
                 dbWalletStats, statsFile, dbGlobalStats, globalStats, roundRobinIndex,
                 totalRequestsEver, pendingRequests, timers, calls>>

\* ------------------------------------------------------------- router
\* eligible without the test of lastPing.
eligible_noPingTest(c) ==
  IF ~requireRegistration THEN TRUE
  ELSE IF ~node[c].isRegistered THEN FALSE
  ELSE TRUE

\* The filter of app.post(['/', '/rpc']) on connectedNodes.values().
eligible(c) ==
  IF ~requireRegistration THEN TRUE
  ELSE IF ~node[c].isRegistered THEN FALSE
  ELSE now - node[c].lastPing < PING_STALE_MS

\* healthy without the error-rate test.
healthy_noErrorRate(c) ==
  LET st == node[c].stats IN
  IF st.requestsHandled < MIN_REQUESTS_FOR_HEALTH THEN TRUE
  ELSE IF st.avgLatencyMs > MAX_AVG_LATENCY_MS THEN FALSE
  ELSE TRUE

\* The healthyNodes filter; errors / requestsHandled > 0.3 as
\* errors * 10 > 3 * requestsHandled.
healthy(c) ==
  LET st == node[c].stats IN
  IF st.requestsHandled < MIN_REQUESTS_FOR_HEALTH THEN TRUE
  ELSE IF st.errors * 10 > 3 * st.requestsHandled THEN FALSE
  ELSE IF st.avgLatencyMs > MAX_AVG_LATENCY_MS THEN FALSE
  ELSE TRUE

\* latA / latB of the sort comparator.
effectiveLatency(c) ==
  IF node[c].stats.requestsHandled < MIN_REQUESTS_FOR_HEALTH
  THEN NEUTRAL_LATENCY_MS
  ELSE node[c].stats.avgLatencyMs

\* Array.prototype.sort with the latency comparator: stable, ascending.
RECURSIVE insertByLatency(_, _)
insertByLatency(sorted, c) ==
  IF sorted = <<>> THEN <<c>>
  ELSE IF effectiveLatency(sorted[Len(sorted)]) <= effectiveLatency(c)
  THEN Append(sorted, c)
  ELSE Append(insertByLatency(SubSeq(sorted, 1, Len(sorted) - 1), c),
              sorted[Len(sorted)])

RECURSIVE sortByLatency(_)
sortByLatency(s) ==
  IF s = <<>> THEN <<>>
  ELSE insertByLatency(sortByLatency(SubSeq(s, 1, Len(s) - 1)), s[Len(s)])

candidateNodes == SelectSeq(connectedNodes, eligible)
healthyNodes == SelectSeq(candidateNodes, healthy)
\* availableNodes taken from all candidates, healthy or not.
availableNodes_unfiltered == sortByLatency(candidateNodes)

\* "Use healthy nodes if any, otherwise use all", then the sort.
availableNodes ==
  sortByLatency(IF Len(healthyNodes) > 0 THEN healthyNodes ELSE candidateNodes)
\* availableNodes itself as the pool, without the slice.
fastPool_all == availableNodes

\* availableNodes.slice(0, Math.max(3, Math.ceil(length / 2)))
fastPool ==
  SubSeq(availableNodes, 1,
         Min(Len(availableNodes),
             Max(MIN_FAST_POOL, CeilHalf(Len(availableNodes)))))
nextRoundRobinIndex == (roundRobinIndex + 1) % Len(fastPool)

\* timeoutDeadline with a 20-second timer.
timeoutDeadline_short(start) == start + 20000

\* The deadline of the timer sendToNode arms for a call started at start.
timeoutDeadline(start) == start + REQUEST_TIMEOUT_MS

\* The id of the next inbound call (a fresh uuid).
nextCallId ==
  IF \E i \in CallIds : calls[i].phase = "free"
  THEN CHOOSE i \in CallIds :
         calls[i].phase = "free" /\ \A j \in CallIds : j < i => calls[j].phase # "free"
  ELSE 0

\* RpcArrive counting the call in totalRequestsEver before the test for an
\* empty candidate set.
RpcArrive_countsFirst(maxCalls) ==
  /\ nextCallId # 0
  /\ nextCallId <= maxCalls
  /\ totalRequestsEver' = totalRequestsEver + 1
  /\ LET id == nextCallId IN
     IF Len(candidateNodes) = 0
     THEN /\ calls' = [calls EXCEPT ![id] =
                [FreeCall EXCEPT !.phase = "done", !.reply = "503",
                                 !.replyAt = now, !.replies = 1]]
          /\ UNCHANGED <<roundRobinIndex, pendingRequests, timers>>
     ELSE LET target == fastPool[nextRoundRobinIndex + 1] IN
          /\ roundRobinIndex' = nextRoundRobinIndex
          /\ pendingRequests' =
                [pendingRequests EXCEPT ![target] = @ \cup {id}]
          /\ timers' = timers \cup {id}
          /\ calls' = [calls EXCEPT ![id] =
                [FreeCall EXCEPT !.phase = "inflight", !.node = target,
                                 !.pool = SeqToSet(fastPool),
                                 !.leftOut =
                                    \/ Len(healthyNodes) < Len(candidateNodes)
                                    \/ Len(fastPool) < Len(availableNodes),
                                 !.start = now]]
  /\ UNCHANGED <<now, requireRegistration, cache, fetching, storedAt, requests, lastDone, linkVars, onChainActive, sock, node, regWait,
                 sent, connectedNodes, nodesByWallet, walletStats,
                 dbWalletStats, statsFile, dbGlobalStats, globalStats>>

\* app.post(['/', '/rpc']) up to `await sendToNode`, sendToNode included;
\* at most maxCalls inbound calls are made.
RpcArrive(maxCalls) ==
  /\ nextCallId # 0
  /\ nextCallId <= maxCalls
  /\ LET id == nextCallId IN
     IF Len(candidateNodes) = 0
     THEN /\ calls' = [calls EXCEPT ![id] =
                [FreeCall EXCEPT !.phase = "done", !.reply = "503",
                                 !.replyAt = now, !.replies = 1]]
          /\ UNCHANGED <<roundRobinIndex, totalRequestsEver, pendingRequests,
                         timers>>
     ELSE LET target == fastPool[nextRoundRobinIndex + 1] IN
          /\ roundRobinIndex' = nextRoundRobinIndex
          /\ totalRequestsEver' = totalRequestsEver + 1
          /\ pendingRequests' =
                [pendingRequests EXCEPT ![target] = @ \cup {id}]
          /\ timers' = timers \cup {id}
          /\ calls' = [calls EXCEPT ![id] =
                [FreeCall EXCEPT !.phase = "inflight", !.node = target,
                                 !.pool = SeqToSet(fastPool),
                                 !.leftOut =
                                    \/ Len(healthyNodes) < Len(candidateNodes)
                                    \/ Len(fastPool) < Len(availableNodes),
                                 !.start = now]]
  /\ UNCHANGED <<now, requireRegistration, cache, fetching, storedAt, requests, lastDone, linkVars, onChainActive, sock, node, regWait,
                 sent, connectedNodes, nodesByWallet, walletStats,
                 dbWalletStats, statsFile, dbGlobalStats, globalStats>>

\* The lines after `await sendToNode` up to the cacheHits/cacheMisses
\* update, on the stats st of the chosen node.
latencyStats(st, latency) ==
  LET cappedLatency == Min(latency, LATENCY_CAP_MS) IN
  [st EXCEPT
     !.requestsHandled = @ + 1,
     !.avgLatencyMs = IF @ = 0 THEN cappedLatency
                      ELSE (@ * 8 + cappedLatency * 2) \div 10]

cacheStats(st, cached) ==
  IF cached THEN [st EXCEPT !.cacheHits = @ + 1]
  ELSE [st EXCEPT !.cacheMisses = @ + 1]

\* addToGlobalStats(bytes, isError)
addToGlobalStats(g, bytes, isError) ==
  [g EXCEPT !.totalDataServed = @ + bytes,
            !.totalRequests = @ + 1,
            !.totalErrors = IF isError THEN @ + 1 ELSE @]

\* The `if (node.operator) persistWalletStats(...)` of both branches.
persistNode(n) ==
  IF n.operator # NoWallet
  THEN persistWalletStats(walletStats, n.operator, n.stats, n.connectedAt)
  ELSE walletStats

\* The try branch of the route handler once sendToNode resolved with a
\* result object of `size` serialized characters.
completeSuccess(id, kind, cached, size) ==
  LET c == calls[id].node
      n == [node[c] EXCEPT
              !.stats = cacheStats(latencyStats(@, now - calls[id].start), cached)]
  IN
  /\ node' = [node EXCEPT ![c] = n]
  /\ globalStats' = addToGlobalStats(globalStats, size, FALSE)
  /\ walletStats' = persistNode(n)
  /\ calls' = [calls EXCEPT ![id].phase = "done", ![id].response = kind,
                            ![id].reply = "200", ![id].replyAt = now,
                            ![id].replies = @ + 1]

\* completeError without node.stats.errors++.
completeError_noCount(id, kind, st, reply) ==
  LET c == calls[id].node
      n == [node[c] EXCEPT !.stats = st]
  IN
  /\ node' = [node EXCEPT ![c] = n]
  /\ globalStats' = addToGlobalStats(globalStats, 0, TRUE)
  /\ walletStats' = persistNode(n)
  /\ calls' = [calls EXCEPT ![id].phase = "done",
                            ![id].response = IF kind = "none" THEN @ ELSE kind,
                            ![id].reply = reply, ![id].replyAt = now,
                            ![id].replies = @ + 1]

\* The catch branch of the route handler; st is the node's stats when the
\* exception was raised.
completeError(id, kind, st, reply) ==
  LET c == calls[id].node
      n == [node[c] EXCEPT !.stats = [st EXCEPT !.errors = @ + 1]]
  IN
  /\ node' = [node EXCEPT ![c] = n]
  /\ globalStats' = addToGlobalStats(globalStats, 0, TRUE)
  /\ walletStats' = persistNode(n)
  /\ calls' = [calls EXCEPT ![id].phase = "done",
                            ![id].response = IF kind = "none" THEN @ ELSE kind,
                            ![id].reply = reply, ![id].replyAt = now,
                            ![id].replies = @ + 1]

\* What a node may put in an rpc_response.
ResponseKinds == {"result", "cached_result", "error", "null", "null_latency"}
\* The rpc_response messages of the node client, whose result is the
\* body the upstream RPC returned: after a fetch (cached false), from its
\* cache (cached true), and on a failed fetch.
ClientResponseKinds == {"result", "cache_hit", "error"}
\* JSON.stringify(result).length of the results the nodes send.
ResultSizes == {20}

\* case 'rpc_response' on socket c for msg.id = id, and the continuation of
\* the route handler it wakes.
\*   result / cached_result: msg.result is an object (with _cached or not)
\*   cache_hit:    msg.cached is true and msg.result an object without
\*                 _cached; the handler passes on msg.result alone
\*   error:        msg.error is set
\*   null:         msg.result absent or null, msg.latencyMs absent or 0
\*   null_latency: msg.result absent, null or a primitive and msg.latencyMs
\*                 set: the write msg.result._nodeLatencyMs throws inside the
\*                 handler, after the entry was deleted and its timer cleared,
\*                 and the catch of the message handler only logs
RpcResponse(c, id, kind) ==
  /\ sock[c] = "open"
  /\ calls[id].node = c
  /\ IF id \in pendingRequests[c]
     THEN /\ timers' = timers \ {id}
          /\ pendingRequests' = [pendingRequests EXCEPT ![c] = @ \ {id}]
          /\ CASE kind = "error" ->
                    completeError(id, kind, node[c].stats, "500")
               [] kind = "result" ->
                    \E size \in ResultSizes :
                      completeSuccess(id, kind, FALSE, size)
               [] kind = "cached_result" ->
                    \E size \in ResultSizes :
                      completeSuccess(id, kind, TRUE, size)
               [] kind = "cache_hit" ->
                    \E size \in ResultSizes :
                      completeSuccess(id, kind, FALSE, size)
               [] kind = "null" ->
                    completeError(id, kind,
                      latencyStats(node[c].stats, now - calls[id].start), "500")
               [] kind = "null_latency" ->
                    /\ calls' = [calls EXCEPT ![id].response = kind]
                    /\ UNCHANGED <<node, globalStats, walletStats>>
     ELSE UNCHANGED <<timers, pendingRequests, node, globalStats, walletStats,
                      calls>>
  /\ UNCHANGED <<now, requireRegistration, cache, fetching, storedAt, requests, lastDone, linkVars, onChainActive, sock, regWait, sent,
                 connectedNodes, nodesByWallet, dbWalletStats, statsFile, dbGlobalStats,
                 roundRobinIndex, totalRequestsEver>>

\* Timeout without node.pendingRequests.delete(requestId).
Timeout_keepsEntry(id) ==
  /\ id \in timers
  /\ now >= timeoutDeadline(calls[id].start)
  /\ timers' = timers \ {id}
  /\ UNCHANGED pendingRequests
  /\ completeError(id, "none", node[calls[id].node].stats, "timeout")
  /\ UNCHANGED <<now, requireRegistration, cache, fetching, storedAt, requests, lastDone, linkVars, onChainActive, sock, regWait, sent,
                 connectedNodes, nodesByWallet, dbWalletStats, statsFile, dbGlobalStats,
                 roundRobinIndex, totalRequestsEver>>

\* The setTimeout callback of sendToNode for call id, and the catch branch
\* it wakes.
Timeout(id) ==
  /\ id \in timers
  /\ now >= timeoutDeadline(calls[id].start)
  /\ timers' = timers \ {id}
  /\ pendingRequests' = [pendingRequests EXCEPT ![calls[id].node] = @ \ {id}]
  /\ completeError(id, "none", node[calls[id].node].stats, "timeout")
  /\ UNCHANGED <<now, requireRegistration, cache, fetching, storedAt, requests, lastDone, linkVars, onChainActive, sock, regWait, sent,
                 connectedNodes, nodesByWallet, dbWalletStats, statsFile, dbGlobalStats,
                 roundRobinIndex, totalRequestsEver>>

\* d milliseconds pass; an armed timer fires when it is due.
Tick(d, horizon) ==
  /\ now + d <= horizon
  /\ \A id \in timers : now + d <= timeoutDeadline(calls[id].start)
  /\ now' = now + d
  /\ UNCHANGED <<requireRegistration, cache, fetching, storedAt, requests, lastDone, linkVars, onChainActive, sock, node, regWait, sent,
                 connectedNodes, nodesByWallet, walletStats, dbWalletStats,
                 statsFile, dbGlobalStats, globalStats, roundRobinIndex, totalRequestsEver,
                 pendingRequests, timers, calls>>

\* ----------------------------------------------------------- node agent
\* CACHE_TTL of node.js, in milliseconds, without its 'default' entry.
CACHE_TTL ==
  [getSlot |-> 500, getBlockHeight |-> 500, getRecentBlockhash |-> 500,
   getLatestBlockhash |-> 500, getAccountInfo |-> 800, getBalance |-> 1500,
   getTokenAccountBalance |-> 1500, getTokenAccountsByOwner |-> 3000,
   getProgramAccounts |-> 5000, getMultipleAccounts |-> 800,
   getBlock |-> 60000, getTransaction |-> 300000,
   getSignaturesForAddress |-> 5000, getConfirmedTransaction |-> 300000,
   getEpochInfo |-> 30000, getEpochSchedule |-> 300000, getHealth |-> 5000,
   getVersion |-> 300000, getGenesisHash |-> 3600000,
   getMinimumBalanceForRentExemption |-> 60000, getClusterNodes |-> 60000,
   getVoteAccounts |-> 30000, getSupply |-> 30000, getInflationRate |-> 60000]

NO_CACHE_METHODS ==
  {"sendTransaction", "sendRawTransaction", "simulateTransaction",
   "requestAirdrop", "getSignatureStatuses", "getRecentPerformanceSamples",
   "getFeeForMessage"}

\* CACHE_TTL[method] || CACHE_TTL['default']
ttlOf(method) ==
  IF method \in DOMAIN CACHE_TTL THEN CACHE_TTL[method] ELSE DEFAULT_TTL

\* method + ':' + JSON.stringify(params); params is the JSON text.
cacheKey(method, params) == method \o ":" \o params

\* The methods and parameter lists of the requests the hub forwards: a
\* slot-level method, one that practically never expires, one without a
\* TTL of its own, and one of the never-cache list.
AgentMethods ==
  {"getSlot", "getGenesisHash", "getFirstAvailableBlock", "sendTransaction"}
AgentParams == {"[]"}
AgentKeys == {cacheKey(m, p) : m \in AgentMethods, p \in AgentParams}
\* The key of a request no other request shares.
OtherKey == "other"

\* What fetchRPC may end with: a JSON-RPC result, a JSON-RPC error object,
\* the JSON text null, a socket error, the 15 s timeout, an unparsable body.
UpstreamOutcomes ==
  {"result", "rpc_error", "null", "network_error", "timeout", "invalid_json"}
\* The outcomes with which the promise of fetchRPC rejects.
Rejected == {"network_error", "timeout", "invalid_json"}

\* The cache is kept in insertion order.  An entry is [key, ts, from, n]:
\* from is the outcome of the upstream call it holds, n is 1 for a key of
\* AgentKeys and the length of a run of consecutive entries under keys no
\* later request uses (OtherKey).
RECURSIVE cacheSize(_)
cacheSize(c) == IF c = <<>> THEN 0 ELSE Head(c).n + cacheSize(Tail(c))

\* The index of the entry under key, 0 when cache.get(key) is undefined.
cacheIndex(c, key) ==
  IF \E i \in 1..Len(c) : c[i].key = key
  THEN CHOOSE i \in 1..Len(c) : c[i].key = key
  ELSE 0

\* cache.set(key, entry): a key already present keeps its place.
cacheSet(c, key, entry) ==
  IF cacheIndex(c, key) # 0 THEN [c EXCEPT ![cacheIndex(c, key)] = entry]
  ELSE Append(c, entry)

\* n entries under fresh keys are set one after the other, each with
\* ts: Date.now(); a run holds entries of one timestamp.
cacheSetOthers(c, n) ==
  IF c # <<>> /\ c[Len(c)].key = OtherKey /\ c[Len(c)].ts = now
  THEN [c EXCEPT ![Len(c)].n = @ + n]
  ELSE Append(c, [key |-> OtherKey, ts |-> now, from |-> "result", n |-> n])

\* The loop over cache.keys(): the first m entries are deleted.
RECURSIVE deleteOldest(_, _)
deleteOldest(c, m) ==
  IF m = 0 \/ c = <<>> THEN c
  ELSE IF Head(c).n <= m THEN deleteOldest(Tail(c), m - Head(c).n)
  ELSE <<[Head(c) EXCEPT !.n = @ - m]>> \o Tail(c)

\* Math.floor(CACHE_MAX_SIZE * 0.1)
toDelete == CACHE_MAX_SIZE \div 10

\* evict without the deletion.
evict_keepsAll(c) == c

\* "Evict old entries if cache is too large"
evict(c) ==
  IF cacheSize(c) > CACHE_MAX_SIZE THEN deleteOldest(c, toDelete) ELSE c

NoRequest ==
  [method |-> "", key |-> "", start |-> 0, outcome |-> "", at |-> 0]

InitAgent ==
  /\ lastDone = NoRequest
  /\ cache = <<>>
  /\ fetching = {}
  /\ storedAt = [k \in AgentKeys |-> -1]
  /\ requests = 0

hubVars ==
  <<requireRegistration, onChainActive, sock, node, regWait, sent,
    connectedNodes, nodesByWallet, walletStats, dbWalletStats, statsFile,
    dbGlobalStats, globalStats, roundRobinIndex, totalRequestsEver,
    pendingRequests, timers, calls>>

\* handleRequest looking the key up with a TTL twice as long.
cacheHit_doubleTtl(method, key) ==
  /\ method \notin NO_CACHE_METHODS
  /\ cacheIndex(cache, key) # 0
  /\ now - cache[cacheIndex(cache, key)].ts < 2 * ttlOf(method)

\* "Try cache first (only for cacheable methods)"
cacheHit(method, key) ==
  /\ method \notin NO_CACHE_METHODS
  /\ cacheIndex(cache, key) # 0
  /\ now - cache[cacheIndex(cache, key)].ts < ttlOf(method)

\* handleRequest(msg) up to `await fetchRPC`, or to its end on a cache hit:
\* on a miss the request waits in fetching for its upstream call.
HandleRequest(method, params) ==
  LET key == cacheKey(method, params)
      id == requests + 1
  IN
  /\ requests < MaxAgentRequests
  /\ requests' = id
  /\ fetching' = IF cacheHit(method, key) THEN fetching
                 ELSE fetching \cup {[id |-> id, method |-> method, key |-> key,
                                      start |-> now]}
  /\ UNCHANGED <<now, cache, storedAt, lastDone, hubVars, linkVars>>

\* shouldStore caching every response that parses, error or not.
shouldStore_anyResponse(method, outcome) ==
  /\ method \notin NO_CACHE_METHODS
  /\ outcome \notin Rejected

\* shouldStore caching never-cache methods too.
shouldStore_anyMethod(method, outcome) ==
  /\ outcome \notin Rejected
  /\ outcome # "null"
  /\ outcome # "rpc_error"

\* "Only cache successful responses for cacheable methods":
\* shouldCache && result && !result.error, reached when fetchRPC resolved.
shouldStore(method, outcome) ==
  /\ method \notin NO_CACHE_METHODS
  /\ outcome \notin Rejected
  /\ outcome # "null"
  /\ outcome # "rpc_error"

\* handleRequest(msg) from the end of `await fetchRPC` on, for request r.
FetchDone(r, outcome) ==
  /\ r \in fetching
  /\ fetching' = fetching \ {r}
  /\ lastDone' = [method |-> r.method, key |-> r.key, start |-> r.start,
                  outcome |-> outcome, at |-> now]
  /\ IF shouldStore(r.method, outcome)
     THEN /\ cache' = evict(cacheSet(cache, r.key,
                        [key |-> r.key, ts |-> now, from |-> outcome, n |-> 1]))
          /\ storedAt' = [storedAt EXCEPT ![r.key] = now]
     ELSE UNCHANGED <<cache, storedAt>>
  /\ UNCHANGED <<now, requests, hubVars, linkVars>>

\* n rpc_request messages for cacheable methods under n keys no other
\* request uses, handled one after the other, each a miss with a JSON-RPC
\* result; none before the last finds the cache above its ceiling.
HandleOthers(n) ==
  /\ requests < MaxAgentRequests
  /\ cacheSize(cache) + n <= CACHE_MAX_SIZE + 1
  /\ requests' = requests + 1
  /\ cache' = evict(cacheSetOthers(cache, n))
  /\ UNCHANGED <<now, fetching, storedAt, lastDone, hubVars, linkVars>>

\* Lengths of the runs of HandleOthers: one request, and what fills an
\* empty cache but for one entry.
OtherRuns == {1, CACHE_MAX_SIZE - 1}

\* onMessage over the replies to one register message, which the hub sends
\* in the order not_registered / auth_failed, registered: the value of the
\* agent's connected flag once all of them are handled.
connectedAfter(replies) == "registered" \in replies

\* ------------------------------------------------- node agent: the link
\* The agent's socket to a relay, its reconnect timers and its health
\* check.  Time is kept as the code uses it, in differences: the age of
\* lastPing and the ms left to each timer; an age above FORCE_RECONNECT_MS
\* is kept as AgeCap, which every test of the code treats alike.  The
\* RELAY_URLS are well-formed, so `new WebSocket(relayUrl)` does not throw.
\* A socket that connect() closed and replaced delivers nothing more but
\* its close event.
RelayIdx == 0..(RELAY_COUNT - 1)
AgeCap == FORCE_RECONNECT_MS + 1

\* Math.min(2000 * Math.pow(2, reconnectAttempts - 1), 30000)
backoffDelay(attempts) ==
  Min(BACKOFF_BASE_MS * 2^(attempts - 1), BACKOFF_CAP_MS)

\* setTimeout(f, d) on the pending timers.
timerAdd(timers_, d) ==
  SelectSeq(timers_, LAMBDA x : x <= d) \o <<d>>
    \o SelectSeq(timers_, LAMBDA x : x > d)

\* ws is a socket that has not closed: ws.close() on it starts its close.
liveSocket == ws \in {"connecting", "open"}

InitLink ==
  /\ ws = "null"
  /\ wsRelay = 0
  /\ superseded = [r \in RelayIdx |-> 0]
  /\ connected = FALSE
  /\ reconnectAttempts = 0
  /\ currentRelayIndex = 0
  /\ lastPingAge = 0
  /\ connectTimers = <<>>
  /\ healthIn = HEALTH_CHECK_MS
  /\ failures = 0
  /\ faults = 0
  /\ sockets = 0
  /\ registerMsg = [c \in Conns |-> "none"]

\* What the actions of the link leave alone.
restVars ==
  <<now, requireRegistration, cache, fetching, storedAt, requests, lastDone,
    hubVars, registerMsg>>

\* connect(), entered with reconnectAttempts = attempts.
connect(attempts) ==
  LET switch == attempts >= MAX_FAILS_BEFORE_SWITCH IN
  /\ sockets < MaxSockets
  /\ sockets' = sockets + 1
  /\ superseded' = IF liveSocket THEN [superseded EXCEPT ![wsRelay] = @ + 1]
                   ELSE superseded
  /\ currentRelayIndex' = IF switch THEN (currentRelayIndex + 1) % RELAY_COUNT
                          ELSE currentRelayIndex
  /\ reconnectAttempts' = IF switch THEN 0 ELSE attempts
  /\ failures' = IF switch THEN 0 ELSE failures
  /\ ws' = "connecting"
  /\ wsRelay' = currentRelayIndex'

\* onClose of a socket that was opened to relay r.
onClose(r) ==
  /\ connected' = FALSE
  /\ reconnectAttempts' = reconnectAttempts + 1
  /\ connectTimers' =
        timerAdd(connectTimers, backoffDelay(reconnectAttempts + 1))
  /\ failures' = IF r = currentRelayIndex THEN failures + 1 ELSE failures

\* start(): connect() once the region is detected.
Start ==
  /\ ws = "null"
  /\ connect(reconnectAttempts)
  /\ UNCHANGED <<connected, lastPingAge, connectTimers, healthIn, faults,
                 restVars>>

\* onOpen: the relay accepted the socket; the register message is sent.
SocketOpen ==
  /\ ws = "connecting"
  /\ ws' = "open"
  /\ reconnectAttempts' = 0
  /\ failures' = 0
  /\ lastPingAge' = 0
  /\ UNCHANGED <<wsRelay, superseded, connected, currentRelayIndex,
                 connectTimers, healthIn, faults, sockets,
                 restVars>>

\* What a relay sends that onMessage looks at, rpc_request apart.
RelayMessages == {"registered", "not_registered", "auth_failed", "ping"}

\* onMessage for a message of the given type on the open socket.
Message(type) ==
  /\ ws = "open"
  /\ connected' = CASE type = "registered" -> TRUE
                    [] type \in {"not_registered", "auth_failed"} -> FALSE
                    [] OTHER -> connected
  /\ lastPingAge' = IF type = "ping" THEN 0 ELSE lastPingAge
  /\ UNCHANGED <<ws, wsRelay, superseded, reconnectAttempts,
                 currentRelayIndex, connectTimers, healthIn, failures, faults,
                 sockets,
                 restVars>>

\* The close event of the socket in ws: the relay refused or dropped it.
CloseCurrent ==
  /\ liveSocket
  /\ ws' = "closed"
  /\ onClose(wsRelay)
  /\ UNCHANGED <<wsRelay, superseded, currentRelayIndex, lastPingAge,
                 healthIn, faults, sockets,
                 restVars>>

\* The close event of a socket to relay r that connect() replaced.
CloseSuperseded(r) ==
  /\ superseded[r] > 0
  /\ superseded' = [superseded EXCEPT ![r] = @ - 1]
  /\ onClose(r)
  /\ UNCHANGED <<ws, wsRelay, currentRelayIndex, lastPingAge, healthIn,
                 faults, sockets,
                 restVars>>

\* A setTimeout(connect, d) is due.
ConnectTimer ==
  /\ connectTimers # <<>>
  /\ Head(connectTimers) = 0
  /\ connectTimers' = Tail(connectTimers)
  /\ connect(reconnectAttempts)
  /\ UNCHANGED <<connected, lastPingAge, healthIn, faults, restVars>>

forcedAttempts_unchanged == reconnectAttempts

\* What the stale branch of the health check sets reconnectAttempts to.
forcedAttempts == MAX_FAILS_BEFORE_SWITCH

\* The callback of the health-check setInterval.
HealthCheck ==
  /\ healthIn = 0
  /\ healthIn' = HEALTH_CHECK_MS
  /\ IF connected /\ lastPingAge > STALE_PING_MS
     THEN /\ connected' = FALSE
          /\ connect(forcedAttempts)
     ELSE IF ~connected /\ lastPingAge > FORCE_RECONNECT_MS
     THEN /\ connect(reconnectAttempts)
          /\ UNCHANGED connected
     ELSE UNCHANGED <<ws, wsRelay, superseded, connected, reconnectAttempts,
                      currentRelayIndex, failures, sockets>>
  /\ UNCHANGED <<lastPingAge, connectTimers, faults, restVars>>

\* process.on('uncaughtException'), once the agent has started.
UncaughtException ==
  /\ ws # "null"
  /\ faults < MaxFaults
  /\ faults' = faults + 1
  /\ connectTimers' = timerAdd(connectTimers, FAULT_RETRY_MS)
  /\ UNCHANGED <<ws, wsRelay, superseded, connected, reconnectAttempts,
                 currentRelayIndex, lastPingAge, healthIn, failures, sockets,
                 restVars>>

\* process.on('unhandledRejection'), once the agent has started.
UnhandledRejection ==
  /\ ws # "null"
  /\ faults < MaxFaults
  /\ faults' = faults + 1
  /\ UNCHANGED <<ws, wsRelay, superseded, connected, reconnectAttempts,
                 currentRelayIndex, lastPingAge, connectTimers, healthIn,
                 failures, sockets,
                 restVars>>

\* The ms to the next timer that is due.
nextDue ==
  IF connectTimers = <<>> THEN healthIn ELSE Min(healthIn, Head(connectTimers))

\* Time passes up to the next timer that is due.
LinkTick ==
  /\ nextDue > 0
  /\ healthIn' = healthIn - nextDue
  /\ connectTimers' = [i \in 1..Len(connectTimers) |-> connectTimers[i] - nextDue]
  /\ lastPingAge' = Min(lastPingAge + nextDue, AgeCap)
  /\ UNCHANGED <<ws, wsRelay, superseded, connected, reconnectAttempts,
                 currentRelayIndex, failures, faults, sockets,
                 restVars>>

\* -------------------------------------------------------- durable store
\* The columns db.saveWalletStats writes: the table has no column for lastIP.
dbRow(p) ==
  [requestsHandled |-> p.requestsHandled, avgLatencyMs |-> p.avgLatencyMs,
   cacheHits |-> p.cacheHits, cacheMisses |-> p.cacheMisses,
   errors |-> p.errors, totalUptime |-> p.totalUptime,
   lastDisconnect |-> p.lastDisconnect, firstConnect |-> p.firstConnect]

\* The entry loadWalletStats builds from a row (stats.lastIP || undefined).
fromDbRow(r) ==
  [requestsHandled |-> r.requestsHandled, avgLatencyMs |-> r.avgLatencyMs,
   cacheHits |-> r.cacheHits, cacheMisses |-> r.cacheMisses,
   errors |-> r.errors, totalUptime |-> r.totalUptime,
   lastDisconnect |-> r.lastDisconnect, firstConnect |-> r.firstConnect,
   lastIP |-> NoIP]

\* INSERT OR REPLACE of every entry of walletStats.
savedRows ==
  [w \in (DOMAIN dbWalletStats) \cup (DOMAIN walletStats) |->
     IF w \in DOMAIN walletStats THEN dbRow(walletStats[w])
     ELSE dbWalletStats[w]]

\* loadWalletStats(): the rows of the table, or the JSON file when the
\* database cannot be read.
loadWalletStats(rows, file, dbFails) ==
  IF dbFails THEN file
  ELSE [w \in DOMAIN rows |-> fromDbRow(rows[w])]

\* saveWalletStats(), run by setInterval every 5 minutes: the table, or the
\* JSON file when a write throws.
SaveWalletStats(dbFails) ==
  /\ IF dbFails
     THEN /\ statsFile' = walletStats
          /\ UNCHANGED dbWalletStats
     ELSE /\ dbWalletStats' = savedRows
          /\ UNCHANGED statsFile
  /\ UNCHANGED <<now, requireRegistration, cache, fetching, storedAt, requests, lastDone, linkVars, onChainActive, sock, node, regWait,
                 sent, connectedNodes, nodesByWallet, walletStats,
                 dbGlobalStats, globalStats, roundRobinIndex,
                 totalRequestsEver, pendingRequests, timers, calls>>

\* saveGlobalStats(), run by setInterval every minute.
SaveGlobalStats ==
  /\ dbGlobalStats' = globalStats
  /\ UNCHANGED <<now, requireRegistration, cache, fetching, storedAt, requests, lastDone, linkVars, onChainActive, sock, node, regWait,
                 sent, connectedNodes, nodesByWallet, walletStats,
                 dbWalletStats, statsFile, globalStats, roundRobinIndex,
                 totalRequestsEver, pendingRequests, timers, calls>>

\* The node object of a socket whose hub process is gone.
DeadNode ==
  [operator |-> NoWallet, isRegistered |-> FALSE, connectedAt |-> 0,
   lastPing |-> 0, ip |-> NoIP, flushedAt |-> -1, stats |-> ZeroStats]

\* A new hub process starts on the durable store (module start-up:
\* loadWalletStats(); loadGlobalStats(); the maps and counters as declared).
\* Every socket of the old process is gone and no handler of it runs.
restart(rows, file, global, dbFails) ==
  /\ walletStats' = loadWalletStats(rows, file, dbFails)
  /\ globalStats' = global
  /\ sock' = [c \in Conns |-> IF sock[c] = "none" THEN "none" ELSE "closed"]
  /\ node' = [c \in Conns |-> DeadNode]
  /\ regWait' = [c \in Conns |-> NoWallet]
  /\ sent' = [c \in Conns |-> {}]
  /\ connectedNodes' = <<>>
  /\ nodesByWallet' = EmptyMap
  /\ roundRobinIndex' = 0
  /\ totalRequestsEver' = 0
  /\ pendingRequests' = [c \in Conns |-> {}]
  /\ timers' = {}
  /\ calls' = [i \in CallIds |->
        IF calls[i].phase = "inflight"
        THEN [calls[i] EXCEPT !.phase = "aborted"] ELSE calls[i]]

\* The hub process dies between two event-loop turns and is started again.
CrashRestart(dbFails) ==
  /\ \E c \in Conns : sock[c] # "none"
  /\ restart(dbWalletStats, statsFile, dbGlobalStats, dbFails)
  /\ UNCHANGED <<now, requireRegistration, cache, fetching, storedAt, requests, lastDone, linkVars, onChainActive, dbWalletStats,
                 statsFile, dbGlobalStats>>

\* process.on('SIGTERM' / 'SIGINT'): saveWalletStats(); saveGlobalStats();
\* process.exit(0); and the hub is started again.
Shutdown ==
  /\ \E c \in Conns : sock[c] # "none"
  /\ dbWalletStats' = savedRows
  /\ dbGlobalStats' = globalStats
  /\ restart(savedRows, statsFile, globalStats, FALSE)
  /\ UNCHANGED <<now, requireRegistration, cache, fetching, storedAt, requests, lastDone, linkVars, onChainActive, statsFile>>

\* ------------------------------------------------------ specifications
\* The hub right after a first start on an empty store.
InitHub(modes) ==
  /\ now = 0
  /\ requireRegistration \in modes
  /\ onChainActive = Wallets
  /\ sock = [c \in Conns |-> "none"]
  /\ node = [c \in Conns |-> DeadNode]
  /\ regWait = [c \in Conns |-> NoWallet]
  /\ sent = [c \in Conns |-> {}]
  /\ connectedNodes = <<>>
  /\ nodesByWallet = EmptyMap
  /\ walletStats = EmptyMap
  /\ dbWalletStats = EmptyMap
  /\ statsFile = EmptyMap
  /\ dbGlobalStats = InitGlobalStats
  /\ globalStats = InitGlobalStats
  /\ roundRobinIndex = 0
  /\ totalRequestsEver = 0
  /\ pendingRequests = [c \in Conns |-> {}]
  /\ timers = {}
  /\ calls = [i \in CallIds |-> FreeCall]
  /\ InitAgent
  /\ InitLink

Init == InitHub({TRUE})

\* The connection registry: register, displacement and close in every
\* order, with routed calls feeding the counters.  No time passes.
Next ==
  \/ \E c \in 1..RegistryConns : Connect(c, "ip1")
  \/ \E c \in Conns, w \in {"W1", NoWallet}, sig \in Signatures :
        RegisterMsg(c, w, 0, sig)
  \/ \E c \in Conns : RegisterFinish(c)
  \/ \E c \in Conns : CloseRemote(c)
  \/ \E c \in Conns : CloseEvent(c)
  \/ RpcArrive(RegistryCalls)
  \/ \E c \in Conns, id \in CallIds : RpcResponse(c, id, "result")

Spec == Init /\ [][Next]_vars

\* Sessions of one wallet on a clock of whole seconds.
NextUptime ==
  \/ \E c \in 1..UptimeConns : Connect(c, "ip1")
  \/ \E c \in Conns, sig \in {NoSignature} : RegisterMsg(c, "W1", 0, sig)
  \/ \E c \in Conns : RegisterFinish(c)
  \/ \E c \in Conns : CloseRemote(c)
  \/ \E c \in Conns : CloseEvent(c)
  \/ RpcArrive(UptimeCalls)
  \/ \E c \in Conns, id \in CallIds : RpcResponse(c, id, "result")
  \/ Tick(1000, MaxSeconds * 1000)

SpecUptime == Init /\ [][NextUptime]_vars

\* The statistics across hub restarts: the save timers, a crash between two
\* event-loop turns, a graceful shutdown.
NextDurable ==
  \/ \E c \in 1..DurableConns : Connect(c, "ip1")
  \/ \E c \in Conns, sig \in {NoSignature} : RegisterMsg(c, "W1", 0, sig)
  \/ \E c \in Conns : RegisterFinish(c)
  \/ \E c \in Conns : CloseRemote(c)
  \/ \E c \in Conns : CloseEvent(c)
  \/ RpcArrive(DurableCalls)
  \/ \E c \in Conns, id \in CallIds, k \in {"result", "error"} :
        RpcResponse(c, id, k)
  \/ SaveWalletStats(FALSE)
  \/ SaveGlobalStats
  \/ CrashRestart(FALSE)
  \/ Shutdown

SpecDurable == Init /\ [][NextDurable]_vars

\* Rows left in wallet_stats by earlier runs of the hub: wallet W1 served
\* 10 calls without an error at 50 ms, wallet W2 served 10 calls with 4
\* errors at 40 ms, or (another store) 10 calls without an error at 4000 ms.
SeedRowA ==
  [requestsHandled |-> 10, avgLatencyMs |-> 50, cacheHits |-> 0,
   cacheMisses |-> 10, errors |-> 0, totalUptime |-> 60,
   lastDisconnect |-> 0, firstConnect |-> 0]
SeedRowB ==
  [requestsHandled |-> 10, avgLatencyMs |-> 40, cacheHits |-> 0,
   cacheMisses |-> 10, errors |-> 4, totalUptime |-> 60,
   lastDisconnect |-> 0, firstConnect |-> 0]
SeedRowSlow ==
  [requestsHandled |-> 10, avgLatencyMs |-> 4000, cacheHits |-> 0,
   cacheMisses |-> 10, errors |-> 0, totalUptime |-> 60,
   lastDisconnect |-> 0, firstConnect |-> 0]
SeedDbs ==
  {EmptyMap,
   [w \in {"W1"} |-> SeedRowA],
   [w \in {"W1", "W2"} |-> IF w = "W1" THEN SeedRowA ELSE SeedRowB],
   [w \in {"W1", "W2"} |-> IF w = "W1" THEN SeedRowA ELSE SeedRowSlow]}

\* The hub right after a start on a store that earlier runs filled.
InitRouter ==
  /\ now = 0
  /\ requireRegistration = TRUE
  /\ onChainActive = Wallets
  /\ sock = [c \in Conns |-> "none"]
  /\ node = [c \in Conns |-> DeadNode]
  /\ regWait = [c \in Conns |-> NoWallet]
  /\ sent = [c \in Conns |-> {}]
  /\ connectedNodes = <<>>
  /\ nodesByWallet = EmptyMap
  /\ dbWalletStats \in SeedDbs
  /\ statsFile = EmptyMap
  /\ walletStats = loadWalletStats(dbWalletStats, statsFile, FALSE)
  /\ dbGlobalStats = InitGlobalStats
  /\ globalStats = InitGlobalStats
  /\ roundRobinIndex = 0
  /\ totalRequestsEver = 0
  /\ pendingRequests = [c \in Conns |-> {}]
  /\ timers = {}
  /\ calls = [i \in CallIds |-> FreeCall]
  /\ InitAgent
  /\ InitLink

\* The wallet the node behind socket c registers in the router
\* specification: sockets 1, 3, ... are W1's, sockets 2, 4, ... are W2's.
walletOf(c) == IF c % 2 = 1 THEN "W1" ELSE "W2"

\* The router's selection: registered nodes with the counters of earlier
\* runs, calls answered with a result or an error after 0 or more seconds.
NextRouter ==
  \/ \E c \in 1..RouterConns : Connect(c, "ip1")
  \/ \E c \in Conns :
        node[c].operator = NoWallet /\ RegisterMsg(c, walletOf(c), 0, NoSignature)
  \/ \E c \in Conns : RegisterFinish(c)
  \/ \E c \in Conns : Pong(c)
  \/ RpcArrive(RouterCalls)
  \/ \E c \in Conns, id \in CallIds, k \in {"result", "error"} :
        RpcResponse(c, id, k)
  \/ Tick(ROUTER_STEP_MS, MaxRouterSteps * ROUTER_STEP_MS)

SpecRouter == InitRouter /\ [][NextRouter]_vars

\* The pending calls: every reply a node may send, the 30-second timer and
\* the close of the socket, in every order, on a clock of 10-second steps.
NextPending ==
  \/ \E c \in 1..PendingConns : Connect(c, "ip1")
  \/ \E c \in Conns : RegisterMsg(c, "W1", 0, NoSignature)
  \/ \E c \in Conns : RegisterFinish(c)
  \/ \E c \in Conns : CloseRemote(c)
  \/ \E c \in Conns : CloseEvent(c)
  \/ RpcArrive(PendingCalls)
  \/ \E c \in Conns, id \in CallIds, k \in ResponseKinds : RpcResponse(c, id, k)
  \/ \E id \in CallIds : Timeout(id)
  \/ Tick(PENDING_STEP_MS, MaxPendingSteps * PENDING_STEP_MS)

SpecPending == Init /\ [][NextPending]_vars

\* The hub with registration required and only W1 bonded on-chain: W2 has
\* no active CacheNodeAccount.
InitAuth ==
  /\ now = 0
  /\ requireRegistration = TRUE
  /\ onChainActive = {"W1"}
  /\ sock = [c \in Conns |-> "none"]
  /\ node = [c \in Conns |-> DeadNode]
  /\ regWait = [c \in Conns |-> NoWallet]
  /\ sent = [c \in Conns |-> {}]
  /\ connectedNodes = <<>>
  /\ nodesByWallet = EmptyMap
  /\ walletStats = EmptyMap
  /\ dbWalletStats = EmptyMap
  /\ statsFile = EmptyMap
  /\ dbGlobalStats = InitGlobalStats
  /\ globalStats = InitGlobalStats
  /\ roundRobinIndex = 0
  /\ totalRequestsEver = 0
  /\ pendingRequests = [c \in Conns |-> {}]
  /\ timers = {}
  /\ calls = [i \in CallIds |-> FreeCall]
  /\ InitAgent
  /\ InitLink

\* Every shape of msg.signature verifySignature tells apart.
AuthSignatures ==
  Signatures \cup
  {[present |-> TRUE, len |-> SIGNATURE_LENGTH, hex |-> FALSE],
   [present |-> TRUE, len |-> SIGNATURE_LENGTH - 1, hex |-> TRUE]}
\* |Date.now() - msg.timestamp|: none, the whole window, just beyond it.
AuthSkews == {0, SIGNATURE_WINDOW_MS, SIGNATURE_WINDOW_MS + 1}

\* Authentication and the on-chain check: every register message a socket
\* may send, any number of times, for a bonded and an unbonded wallet.
NextAuth ==
  \/ \E c \in 1..AuthConns : Connect(c, "ip1")
  \/ \E c \in Conns, w \in Wallets \cup {NoWallet}, skew \in AuthSkews,
        sig \in AuthSignatures : RegisterMsg(c, w, skew, sig)
  \/ \E c \in Conns : RegisterFinish(c)
  \/ \E c \in Conns : CloseEvent(c)
  \/ RpcArrive(AuthCalls)
  \/ \E c \in Conns, id \in CallIds : RpcResponse(c, id, "result")

SpecAuth == InitAuth /\ [][NextAuth]_vars

\* Nodes that stop answering pings while their socket stays open, with
\* registration required and in development mode, on a clock of 60-second
\* steps.
NextStale ==
  \/ \E c \in 1..StaleConns : Connect(c, "ip1")
  \/ \E c \in Conns :
        node[c].operator = NoWallet /\ RegisterMsg(c, walletOf(c), 0, NoSignature)
  \/ \E c \in Conns : RegisterFinish(c)
  \/ \E c \in Conns : Pong(c)
  \/ RpcArrive(StaleCalls)
  \/ \E c \in Conns, id \in CallIds : RpcResponse(c, id, "result")
  \/ Tick(STALE_STEP_MS, MaxStaleSteps * STALE_STEP_MS)

\* The hub after a first start, in either mode.
InitStale == InitHub({TRUE, FALSE})

SpecStale == InitStale /\ [][NextStale]_vars

\* The node agent's cache: requests, upstream outcomes and time in every
\* order, on a clock of 500 ms steps.
NextAgent ==
  \/ \E m \in AgentMethods, p \in AgentParams : HandleRequest(m, p)
  \/ \E r \in fetching, o \in UpstreamOutcomes : FetchDone(r, o)
  \/ \E n \in OtherRuns : HandleOthers(n)
  \/ Tick(AGENT_STEP_MS, MaxAgentSteps * AGENT_STEP_MS)

SpecAgent == Init /\ [][NextAgent]_vars

\* The source addresses (node.ip) of the address specification.
AddressIPs == {"ip1", "ip2"}

\* A wallet that comes back from the same or from another source address:
\* sessions of W1 with calls answered by a result or an error after 0 or 1
\* second, closed or displaced, in every order.
NextAddress ==
  \/ \E c \in 1..AddressConns, ip \in AddressIPs : Connect(c, ip)
  \/ \E c \in Conns :
        node[c].operator = NoWallet /\ RegisterMsg(c, "W1", 0, NoSignature)
  \/ \E c \in Conns : RegisterFinish(c)
  \/ \E c \in Conns : CloseRemote(c)
  \/ \E c \in Conns : CloseEvent(c)
  \/ RpcArrive(AddressCalls)
  \/ \E c \in Conns, id \in CallIds, k \in {"result", "error"} :
        RpcResponse(c, id, k)
  \/ Tick(1000, MaxAddressSeconds * 1000)

SpecAddress == Init /\ [][NextAddress]_vars

\* The agent's link: relays that accept, refuse, drop or go silent, the
\* messages of a relay in every order, faults, and the agent's timers.
NextLink ==
  \/ Start
  \/ SocketOpen
  \/ \E type \in RelayMessages : Message(type)
  \/ CloseCurrent
  \/ \E r \in RelayIdx : CloseSuperseded(r)
  \/ ConnectTimer
  \/ HealthCheck
  \/ UncaughtException
  \/ UnhandledRejection
  \/ LinkTick

SpecLink == Init /\ [][NextLink]_vars

\* The same with what the event loop and the network guarantee: time
\* passes, a due timer runs, a socket that is connecting opens or fails,
\* and a socket that was closed gets its close event.
SpecLinkLive ==
  /\ Init
  /\ [][NextLink]_vars
  /\ WF_vars(Start)
  /\ WF_vars(LinkTick)
  /\ WF_vars(ConnectTimer)
  /\ WF_vars(HealthCheck)
  /\ WF_vars(ws = "connecting" /\ (SocketOpen \/ CloseCurrent))
  /\ WF_vars(\E r \in RelayIdx : CloseSuperseded(r))

\* The agent's link to a relay that accepts every socket and closes it
\* without registering the agent, and sends no ping: each socket opens and
\* closes within FORCE_RECONNECT_MS of the previous open, so the only
\* reconnects are those onClose schedules.
withinForceWindow == lastPingAge + nextDue <= FORCE_RECONNECT_MS

NextRejecting ==
  \/ Start
  \/ SocketOpen
  \/ ws = "open" /\ CloseCurrent
  \/ ConnectTimer
  \/ HealthCheck
  \/ withinForceWindow /\ LinkTick

SpecRejecting == Init /\ [][NextRejecting]_vars

\* Nodes running the node client, which answer routed calls from their
\* cache or from upstream.
NextHits ==
  \/ \E c \in 1..HitConns : Connect(c, "ip1")
  \/ \E c \in Conns :
        node[c].operator = NoWallet /\ RegisterMsg(c, "W1", 0, NoSignature)
  \/ \E c \in Conns : RegisterFinish(c)
  \/ \E c \in Conns : CloseEvent(c)
  \/ RpcArrive(HitCalls)
  \/ \E c \in Conns, id \in CallIds, k \in ClientResponseKinds :
        RpcResponse(c, id, k)

SpecHits == Init /\ [][NextHits]_vars

\* The durable store with a database that may be unavailable at a save of
\* the wallet stats and at a start of the hub.
NextFallback ==
  \/ \E c \in 1..DurableConns : Connect(c, "ip1")
  \/ \E c \in Conns, sig \in {NoSignature} : RegisterMsg(c, "W1", 0, sig)
  \/ \E c \in Conns : RegisterFinish(c)
  \/ \E c \in Conns : CloseRemote(c)
  \/ \E c \in Conns : CloseEvent(c)
  \/ RpcArrive(DurableCalls)
  \/ \E c \in Conns, id \in CallIds, k \in {"result", "error"} :
        RpcResponse(c, id, k)
  \/ \E dbFails \in BOOLEAN : SaveWalletStats(dbFails)
  \/ \E dbFails \in BOOLEAN : CrashRestart(dbFails)
  \/ Shutdown

SpecFallback == Init /\ [][NextFallback]_vars

\* Four operators whose earlier runs left different latencies in the store.
PoolWallets == {"W1", "W2", "W3", "W4"}
poolWalletOf(c) == CASE c = 1 -> "W1" [] c = 2 -> "W2" [] c = 3 -> "W3"
                     [] OTHER -> "W4"
PoolDbs ==
  {[w \in {"W1", "W3", "W4"} |->
      CASE w = "W1" -> SeedRowA
        [] w = "W3" -> [SeedRowA EXCEPT !.avgLatencyMs = 2000]
        [] OTHER -> [SeedRowA EXCEPT !.avgLatencyMs = 100]],
   [w \in {"W2", "W3"} |->
      IF w = "W2" THEN [SeedRowA EXCEPT !.avgLatencyMs = 600]
      ELSE [SeedRowA EXCEPT !.requestsHandled = 4, !.avgLatencyMs = 10]]}

InitPool ==
  /\ now = 0
  /\ requireRegistration = TRUE
  /\ onChainActive = PoolWallets
  /\ sock = [c \in Conns |-> "none"]
  /\ node = [c \in Conns |-> DeadNode]
  /\ regWait = [c \in Conns |-> NoWallet]
  /\ sent = [c \in Conns |-> {}]
  /\ connectedNodes = <<>>
  /\ nodesByWallet = EmptyMap
  /\ dbWalletStats \in PoolDbs
  /\ statsFile = EmptyMap
  /\ walletStats = loadWalletStats(dbWalletStats, statsFile, FALSE)
  /\ dbGlobalStats = InitGlobalStats
  /\ globalStats = InitGlobalStats
  /\ roundRobinIndex = 0
  /\ totalRequestsEver = 0
  /\ pendingRequests = [c \in Conns |-> {}]
  /\ timers = {}
  /\ calls = [i \in CallIds |-> FreeCall]
  /\ InitAgent
  /\ InitLink

NextPool ==
  \/ \E c \in 1..PoolConns : Connect(c, "ip1")
  \/ \E c \in Conns :
        node[c].operator = NoWallet
          /\ RegisterMsg(c, poolWalletOf(c), 0, NoSignature)
  \/ \E c \in Conns : RegisterFinish(c)
  \/ \E c \in 1..PoolClosers : CloseRemote(c)
  \/ \E c \in Conns : CloseEvent(c)
  \/ RpcArrive(PoolCalls)
  \/ \E c \in Conns, id \in CallIds : RpcResponse(c, id, "result")

SpecPool == InitPool /\ [][NextPool]_vars

\* Calls the route handler is awaiting.
inFlight == Cardinality({i \in CallIds : calls[i].phase = "inflight"})

\* Connections whose register message may arrive before or after the
\* geolocation lookup of the hub returns.
registerDelivered(c) ==
  registerMsg[c] = "delivered" /\ node[c].operator = NoWallet /\ sent[c] = {}

NextLookup ==
  \/ \E c \in 1..LookupConns : ConnectLookup(c, "ip1")
  \/ \E c \in Conns : LookupDone(c)
  \/ \E c \in Conns : RegisterArrives(c)
  \/ \E c \in Conns, w \in Wallets \cup {NoWallet}, sig \in AuthSignatures :
        registerDelivered(c) /\ RegisterMsg(c, w, 0, sig)
  \/ \E c \in Conns : RegisterFinish(c)
  \/ \E c \in Conns : CloseEvent(c)
  \/ RpcArrive(LookupCalls)
  \/ \E c \in Conns, id \in CallIds : RpcResponse(c, id, "result")

\* The event loop runs every callback that is due: a lookup returns, a
\* message on a socket is read, a handler that awaits resumes.
SpecLookupLive ==
  /\ InitAuth
  /\ [][NextLookup]_vars
  /\ \A c \in Conns :
       /\ WF_vars(LookupDone(c))
       /\ WF_vars(RegisterArrives(c))
       /\ WF_vars(RegisterFinish(c))
       /\ WF_vars(\E w \in Wallets \cup {NoWallet}, sig \in AuthSignatures :
                    registerDelivered(c) /\ RegisterMsg(c, w, 0, sig))

\* The hub with registration required, serving sockets opened for the
\* bonded wallet.  Each sends one register message on open, with timestamp
\* Date.now(): the shipped node client with its fixed signature, a client
\* that signs nothing with no signature field.
clientRegisters(c) ==
  /\ node[c].operator = NoWallet
  /\ sent[c] = {}
  /\ \E w \in onChainActive : RegisterMsg(c, w, 0, clientSignature)

unsignedRegisters(c) ==
  /\ node[c].operator = NoWallet
  /\ sent[c] = {}
  /\ \E w \in onChainActive : RegisterMsg(c, w, 0, NoSignature)

NextClient ==
  \/ \E c \in 1..ClientConns : Connect(c, "ip1")
  \/ \E c \in Conns : clientRegisters(c)
  \/ \E c \in Conns : unsignedRegisters(c)
  \/ \E c \in Conns : RegisterFinish(c)
  \/ \E c \in Conns : CloseEvent(c)
  \/ RpcArrive(ClientCalls)
  \/ \E c \in Conns, id \in CallIds : RpcResponse(c, id, "result")

\* The event loop runs every handler whose event is queued.
SpecClientLive ==
  /\ InitAuth
  /\ [][NextClient]_vars
  /\ \A c \in Conns :
       /\ WF_vars(clientRegisters(c) \/ unsignedRegisters(c))
       /\ WF_vars(RegisterFinish(c))
       /\ WF_vars(CloseEvent(c))

\* Two nodes of different operators whose calls return results, return
\* errors or time out.
NextFailing ==
  \/ \E c \in 1..FailingConns : Connect(c, "ip1")
  \/ \E c \in Conns :
        node[c].operator = NoWallet /\ RegisterMsg(c, walletOf(c), 0, NoSignature)
  \/ \E c \in Conns : RegisterFinish(c)
  \/ inFlight < FailingInFlight /\ RpcArrive(FailingCalls)
  \/ \E c \in Conns, id \in CallIds, k \in {"result", "error"} :
        RpcResponse(c, id, k)
  \/ \E id \in CallIds : Timeout(id)
  \/ Tick(REQUEST_TIMEOUT_MS, MaxFailingSteps * REQUEST_TIMEOUT_MS)

SpecFailing == Init /\ [][NextFailing]_vars

\* Two connections of one wallet with every way a routed call resolves:
\* displacement, closes, results, errors and timeouts while time passes.
NextCounters ==
  \/ \E c \in 1..CounterConns : Connect(c, "ip1")
  \/ \E c \in Conns :
        node[c].operator = NoWallet /\ RegisterMsg(c, "W1", 0, NoSignature)
  \/ \E c \in Conns : RegisterFinish(c)
  \/ \E c \in Conns : CloseRemote(c)
  \/ \E c \in Conns : CloseEvent(c)
  \/ RpcArrive(CounterCalls)
  \/ \E c \in Conns, id \in CallIds, k \in {"result", "error"} :
        RpcResponse(c, id, k)
  \/ \E id \in CallIds : Timeout(id)
  \/ Tick(PENDING_STEP_MS, MaxCounterSteps * PENDING_STEP_MS)

SpecCounters == Init /\ [][NextCounters]_vars

\* ---------------------------------------------------------------- claims
registry == SeqToSet(connectedNodes)

\* C1: in every reachable state at most one connection of the registry
\* (connectedNodes) carries a given operator wallet.
C1_OneConnectionPerWallet ==
  \A a \in registry, b \in registry :
    (node[a].operator # NoWallet /\ node[a].operator = node[b].operator)
      => a = b

\* C2: when a register is processed and connection c is admitted while
\* another connection m of the same wallet is in the registry, then in the
\* same step m is closed and removed from the registry, its request counters
\* and its session uptime are merged into WalletStats of the wallet, and the
\* counters of c are seeded from that merged record.
C2_DisplacedFlushedBeforeAdmitted ==
  [][\A c \in Conns :
       (c \notin registry /\ c \in SeqToSet(connectedNodes'))
       => \A m \in registry :
            (m # c /\ node[m].operator = node'[c].operator)
            => LET w == node[m].operator
                   before == IF w \in DOMAIN walletStats
                             THEN walletStats[w].totalUptime ELSE 0
               IN
               /\ m \notin SeqToSet(connectedNodes')
               /\ sock'[m] # "open"
               /\ w \in DOMAIN walletStats'
               /\ walletStats'[w].requestsHandled >= node[m].stats.requestsHandled
               /\ walletStats'[w].cacheHits >= node[m].stats.cacheHits
               /\ walletStats'[w].cacheMisses >= node[m].stats.cacheMisses
               /\ walletStats'[w].errors >= node[m].stats.errors
               /\ walletStats'[w].totalUptime
                    >= before + FloorSeconds(now - node[m].connectedAt)
               /\ node'[c].stats.requestsHandled
                    = walletStats'[w].requestsHandled]_vars

\* The connections that served wallet w, and the whole seconds of a session.
sessionsOf(w) == {c \in Conns : node[c].operator = w}
sessionSeconds(c) == FloorSeconds(node[c].flushedAt - node[c].connectedAt)

RECURSIVE sumSessions(_)
sumSessions(S) ==
  IF S = {} THEN 0
  ELSE LET c == CHOOSE x \in S : TRUE IN
       sessionSeconds(c) + sumSessions(S \ {c})

\* Every session of w was registered, then closed and flushed, and no two
\* of them overlap.
sequentialSessions(w) ==
  /\ sessionsOf(w) # {}
  /\ \A c \in sessionsOf(w) : sock[c] = "closed" /\ node[c].flushedAt # -1
  /\ \A a \in sessionsOf(w), b \in sessionsOf(w) :
       a # b => \/ node[a].flushedAt <= node[b].connectedAt
                \/ node[b].flushedAt <= node[a].connectedAt

\* C3: after the sequential sessions of a wallet, each closed,
\* WalletStats.totalUptime is the sum of their durations in seconds.
C3_UptimeIsSumOfSessions ==
  \A w \in Wallets :
    sequentialSessions(w)
      => /\ w \in DOMAIN walletStats
         /\ walletStats[w].totalUptime = sumSessions(sessionsOf(w))

\* requestsHandled the hub holds for w in the map m (0 without an entry).
heldRequests(m, w) == IF w \in DOMAIN m THEN m[w].requestsHandled ELSE 0

\* C4: for every wallet, the requestsHandled the hub holds in WalletStats
\* never decreases, across register, call completion, close, crash and
\* restart from the durable store.
C4_RequestsHandledNeverDecrease ==
  [][\A w \in Wallets :
       heldRequests(walletStats', w) >= heldRequests(walletStats, w)]_vars

\* A connection the router may send a call to, as the claims state it:
\* registered and (with registration required) heard from within 120 s.
recentlyPinged(c) == now - node[c].lastPing < 120000
eligibleConnection(c) ==
  c \in registry /\ (requireRegistration => node[c].isRegistered /\ recentlyPinged(c))

\* Call id is taken in this step.
arrives(id) == calls[id].phase = "free" /\ calls'[id].phase # "free"

\* C5: a call that arrives when no connection is eligible is answered in
\* the same step with a 503; no rpc_request is sent, no pending entry or
\* timer is created, and the round-robin index, the nodes' counters,
\* WalletStats and GlobalStats stay as they were.
C5_NoCapacityFailsFast ==
  [][\A id \in CallIds :
       (arrives(id) /\ ~\E c \in Conns : eligibleConnection(c))
       => /\ calls'[id].reply = "503"
          /\ calls'[id].replyAt = now
          /\ calls'[id].node = 0
          /\ UNCHANGED <<pendingRequests, timers, roundRobinIndex,
                         totalRequestsEver, node, walletStats, globalStats>>]_vars

\* A 503 was answered, and another call was served.
C5_Witness ==
  \E i \in CallIds, j \in CallIds :
    calls[i].reply = "503" /\ calls[j].reply = "200"

\* The 30-second deadline of a dispatched call, as the claims state it.
deadlineOf(id) == calls[id].start + 30000
dispatched(id) == calls[id].node # 0
isPending(id) == dispatched(id) /\ id \in pendingRequests[calls[id].node]

\* C6: a dispatched call whose node sends no matching rpc_response is
\* rejected with the timeout error exactly at its 30-second deadline: never
\* before it, and after it the call is no longer pending, its entry is gone
\* and its timer is no longer armed.
C6_TimeoutAtDeadline ==
  \A id \in CallIds :
    /\ calls[id].reply = "timeout" => calls[id].replyAt = deadlineOf(id)
    /\ (dispatched(id) /\ calls[id].response = "none" /\ now < deadlineOf(id))
         => calls[id].reply = "none" /\ isPending(id)
    /\ (dispatched(id) /\ calls[id].response = "none" /\ now > deadlineOf(id))
         => calls[id].reply = "timeout" /\ ~isPending(id) /\ id \notin timers

\* A call timed out and time went on.
C6_Witness ==
  \E id \in CallIds : calls[id].reply = "timeout" /\ now > deadlineOf(id)

\* C7: the outcome of a dispatched call is delivered to its caller at most
\* once: the response or the timeout that comes first removes the pending
\* entry and disarms the timer, and the other one then finds nothing.
C7_CompletedAtMostOnce ==
  \A id \in CallIds :
    /\ calls[id].replies <= 1
    /\ calls[id].reply # "none" => ~isPending(id) /\ id \notin timers
    /\ calls[id].response # "none" => ~isPending(id) /\ id \notin timers
    /\ calls[id].reply = "timeout" => calls[id].response = "none"

\* A response came first and the deadline has passed; another call timed
\* out first on a socket that is still open for a late response.
C7_Witness ==
  \E i \in CallIds, j \in CallIds :
    /\ calls[i].reply = "200" /\ now > deadlineOf(i)
    /\ calls[j].reply = "timeout" /\ sock[calls[j].node] = "open"
    /\ now > deadlineOf(j)

\* C8: every dispatched call is completed (a result or an error goes back
\* to the caller) no later than its 30-second deadline, whatever the node
\* replies.
C8_CompletedByDeadline ==
  \A id \in CallIds :
    (dispatched(id) /\ now > deadlineOf(id)) => calls[id].reply # "none"

\* Calls i..j, and how many of them went to connection n.
RECURSIVE callsTo(_, _, _)
callsTo(n, i, j) ==
  IF i > j THEN 0
  ELSE (IF calls[i].node = n THEN 1 ELSE 0) + callsTo(n, i + 1, j)

\* Calls i..j were all dispatched, from one and the same pool that held
\* every candidate, each of them healthy.
fixedPool(i, j) ==
  \A k \in i..j :
    dispatched(k) /\ ~calls[k].leftOut /\ calls[k].pool = calls[i].pool

\* C9: over any M consecutive calls routed from a fixed pool of K healthy
\* nodes, each node is selected floor(M/K) or ceil(M/K) times.
C9_RoundRobinBalanced ==
  \A i \in CallIds, j \in CallIds :
    (i <= j /\ fixedPool(i, j))
    => LET M == j - i + 1
           K == Cardinality(calls[i].pool)
       IN \A n \in calls[i].pool :
            /\ callsTo(n, i, j) >= M \div K
            /\ callsTo(n, i, j) <= (M + K - 1) \div K

\* The scenario of C10 around connections a and b: the store held A's and
\* B's rows at start, a registered A's wallet and b B's, both are
\* registered and recently pinged and alone in the registry, B's counters
\* are as stored, and A is within the health thresholds.
scenarioAB(a, b) ==
  /\ "W1" \in DOMAIN dbWalletStats /\ dbWalletStats["W1"] = SeedRowA
  /\ "W2" \in DOMAIN dbWalletStats /\ dbWalletStats["W2"] = SeedRowB
  /\ registry = {a, b} /\ a # b
  /\ node[a].operator = "W1" /\ node[b].operator = "W2"
  /\ node[a].isRegistered /\ node[b].isRegistered
  /\ recentlyPinged(a) /\ recentlyPinged(b)
  /\ node[b].stats.errors = 4 /\ node[b].stats.requestsHandled = 10
  /\ node[b].stats.avgLatencyMs = 40
  /\ node[a].stats.requestsHandled >= 10
  /\ node[a].stats.errors * 10 <= 3 * node[a].stats.requestsHandled
  /\ node[a].stats.avgLatencyMs <= 3000

\* C10: with A (errors 0 of 10, 50 ms) and B (errors 4 of 10, 40 ms) the
\* only registered, recently pinged nodes, every call is dispatched to A
\* for as long as A is within the health thresholds and B's counters are
\* unchanged.
C10_ErrorRateFilterDropsB ==
  [][\A id \in CallIds, a \in Conns, b \in Conns :
       (arrives(id) /\ scenarioAB(a, b)) => calls'[id].node = a]_vars

\* In the scenario a call is in flight at A after A already served one.
C10_Witness ==
  \E id \in CallIds, a \in Conns, b \in Conns :
    /\ scenarioAB(a, b)
    /\ calls[id].phase = "inflight" /\ calls[id].node = a
    /\ node[a].stats.requestsHandled > 10

\* C11: with registration required, a connection whose wallet has no
\* active on-chain account stays open after its register message is
\* processed, and no call is dispatched to it.
C11_UnbondedGetsNoTraffic ==
  [][/\ \A c \in Conns :
          (regWait[c] # NoWallet /\ regWait[c] \notin onChainActive
             /\ regWait'[c] = NoWallet /\ sock[c] = "open")
          => sock'[c] = "open"
     /\ \A id \in CallIds :
          (requireRegistration /\ arrives(id) /\ calls'[id].node # 0)
          => node[calls'[id].node].operator \in onChainActive]_vars

\* The register messages C12 names: wallet absent, timestamp more than 5
\* minutes from server time, signature absent or not 64 hexadecimal
\* characters.
rejectable(wallet, skew, signature) ==
  \/ wallet = NoWallet
  \/ skew > 300000
  \/ ~signature.present
  \/ signature.len # 64
  \/ ~signature.hex

\* C12: with registration required, such a register message is answered
\* with auth_failed, the socket is closed, and no registry entry, wallet
\* mapping or stats record is created for the connection.
C12_BadRegisterRefused ==
  [][\A c \in Conns, w \in Wallets \cup {NoWallet}, skew \in AuthSkews,
       sig \in AuthSignatures :
       (requireRegistration /\ rejectable(w, skew, sig)
          /\ RegisterMsg(c, w, skew, sig))
       => /\ sent'[c] = {"auth_failed"}
          /\ sock'[c] # "open"
          /\ regWait'[c] = NoWallet
          /\ UNCHANGED <<connectedNodes, nodesByWallet, walletStats>>]_vars

\* The last pong of connection c is 120 seconds old or older.
stalePing(c) == now - node[c].lastPing >= 120000

\* C13 as stated: in both modes no call is dispatched to a connection whose
\* last pong is 120 seconds old or older.
C13_NoDispatchToStale_AnyMode ==
  [][\A id \in CallIds :
       (arrives(id) /\ calls'[id].node # 0)
       => ~stalePing(calls'[id].node)]_vars

\* C13 amended: with registration required no call is dispatched to a
\* connection whose last pong is 120 seconds old or older, open socket or
\* not; without registration required the age of the pong is not tested
\* and a call is dispatched whenever the registry holds a connection.
C13_NoDispatchToStale ==
  [][\A id \in CallIds :
       arrives(id)
       => /\ (requireRegistration /\ calls'[id].node # 0)
               => ~stalePing(calls'[id].node)
          /\ (~requireRegistration /\ registry # {})
               => calls'[id].node \in registry]_vars

\* With registration required a call met only a registered connection
\* with an open socket and a stale pong, and was refused, after an earlier
\* call had been dispatched to that connection.
C13_Witness ==
  /\ requireRegistration
  /\ \E i \in CallIds, j \in CallIds, c \in Conns :
       /\ calls[i].node = c /\ calls[i].reply = "200"
       /\ calls[j].reply = "503" /\ calls[j].replyAt = now
       /\ c \in registry /\ node[c].isRegistered /\ sock[c] = "open"
       /\ stalePing(c)

\* A candidate the health filter drops, as C14 states it: 5 or more
\* requests handled and an error rate above 0.30 or a latency above 3000.
droppedByHealth(c) ==
  /\ node[c].stats.requestsHandled >= 5
  /\ \/ node[c].stats.errors * 10 > 3 * node[c].stats.requestsHandled
     \/ node[c].stats.avgLatencyMs > 3000

\* C14: whenever a candidate exists an arriving call is dispatched to a
\* candidate; it goes to a candidate the health filter drops only when the
\* filter drops every candidate.
C14_HealthFilterFallsBack ==
  [][\A id \in CallIds :
       (arrives(id) /\ \E c \in Conns : eligibleConnection(c))
       => /\ calls'[id].node # 0
          /\ eligibleConnection(calls'[id].node)
          /\ (\E c \in Conns : eligibleConnection(c) /\ ~droppedByHealth(c))
               => ~droppedByHealth(calls'[id].node)]_vars

\* A call went to b, which the filter drops, when b was the only candidate;
\* a later call, with a and b both candidates, went to a, which passes.
C14_Witness ==
  \E i \in CallIds, j \in CallIds, a \in Conns, b \in Conns :
    /\ i < j /\ a # b /\ registry = {a, b}
    /\ calls[i].phase = "inflight" /\ calls[i].node = b
    /\ calls[i].pool = {b} /\ droppedByHealth(b)
    /\ calls[j].phase = "inflight" /\ calls[j].node = a
    /\ eligibleConnection(b) /\ ~droppedByHealth(a)

\* C15: once the close of a socket has been handled no call is pending on
\* it: the calls dispatched to it were failed at the close.
C15_ClosedSocketHasNoPendingCalls ==
  \A c \in Conns :
    sock[c] = "closed"
      => /\ pendingRequests[c] = {}
         /\ \A id \in CallIds :
              (calls[id].node = c /\ calls[id].response = "none")
                => calls[id].reply # "none"

\* Call id times out in this step.
timesOut(id) == calls[id].reply = "none" /\ calls'[id].reply = "timeout"

\* C16: when a dispatched call times out, the errors counter of its node
\* goes up by exactly one and its pending entry is removed; no socket is
\* closed, the registry and the wallet mapping stay as they were, and the
\* node keeps its registration state, its operator and its lastPing.
C16_TimeoutCountsOneError ==
  [][\A id \in CallIds :
       timesOut(id)
       => LET c == calls[id].node IN
          /\ node'[c].stats.errors = node[c].stats.errors + 1
          /\ id \notin pendingRequests'[c]
          /\ UNCHANGED <<sock, connectedNodes, nodesByWallet>>
          /\ node'[c].isRegistered = node[c].isRegistered
          /\ node'[c].operator = node[c].operator
          /\ node'[c].lastPing = node[c].lastPing]_vars

\* A call timed out on a node that is still registered, in the registry
\* and under its wallet, with its socket open and the error counted.
C16_Witness ==
  \E id \in CallIds :
    LET c == calls[id].node IN
    /\ calls[id].reply = "timeout"
    /\ sock[c] = "open" /\ c \in registry /\ node[c].isRegistered
    /\ node[c].operator \in DOMAIN nodesByWallet
    /\ nodesByWallet[node[c].operator] = c
    /\ node[c].stats.errors = 1

\* The requests C17 is about: a cacheable method of the agent under a key
\* for which a successful response was stored, last at storedAt[key].
cacheable(m) == m \in AgentMethods \ NO_CACHE_METHODS
\* The step is a cache hit: the request is answered with no upstream call.
answeredFromCache == requests' = requests + 1 /\ fetching' = fetching
\* The step is a miss: the request waits for a fresh upstream call.
issuesUpstreamCall(m, key) ==
  /\ requests' = requests + 1
  /\ \E r \in fetching' \ fetching : r.method = m /\ r.key = key

\* C17 as stated: once a successful response for (method, params) is
\* stored at t, a request for them at t' is a hit when t' - t < ttl(method),
\* whatever was handled in between, and a miss with a fresh upstream call
\* when t' - t >= ttl(method).
C17_HitWithinTtl_Always ==
  [][\A m \in AgentMethods, p \in AgentParams :
       LET key == cacheKey(m, p) IN
       (cacheable(m) /\ storedAt[key] >= 0 /\ HandleRequest(m, p))
       => IF now - storedAt[key] < ttlOf(m) THEN answeredFromCache
          ELSE issuesUpstreamCall(m, key)]_vars

\* C17 amended: the request is a hit when t' - t < ttl(method) and the
\* entry is still in the cache; it is a miss with a fresh upstream call
\* when t' - t >= ttl(method), and also when the entry was evicted in
\* between.
C17_HitWithinTtl ==
  [][\A m \in AgentMethods, p \in AgentParams :
       LET key == cacheKey(m, p) IN
       (cacheable(m) /\ storedAt[key] >= 0 /\ HandleRequest(m, p))
       => IF now - storedAt[key] < ttlOf(m) /\ cacheIndex(cache, key) # 0
          THEN answeredFromCache
          ELSE issuesUpstreamCall(m, key)]_vars

\* A key was stored, then evicted within its TTL, and the request that
\* came for it last waits for its upstream call; the key of another
\* request is in the cache.
C17_Witness ==
  \E k \in AgentKeys :
    /\ storedAt[k] >= 0 /\ cacheIndex(cache, k) = 0
    /\ \E r \in fetching : r.key = k /\ r.id = requests /\ r.start >= lastDone.at
    /\ cacheIndex(cache, lastDone.key) # 0

\* C18: a request for a method of the never-cache list always issues an
\* upstream call and leaves the cache as it is, and the cache never holds
\* an entry under a key of such a method.
C18_NeverCacheMethods ==
  [][\A m \in AgentMethods \cap NO_CACHE_METHODS, p \in AgentParams :
       /\ HandleRequest(m, p)
            => issuesUpstreamCall(m, cacheKey(m, p)) /\ cache' = cache
       /\ cacheIndex(cache', cacheKey(m, p)) = 0
       /\ storedAt'[cacheKey(m, p)] = -1]_vars

\* A never-cache request got a JSON-RPC result, nothing was stored, and a
\* later request for the same method and params waits for its upstream
\* call.
C18_Witness ==
  /\ lastDone.method \in NO_CACHE_METHODS /\ lastDone.outcome = "result"
  /\ cacheIndex(cache, lastDone.key) = 0
  /\ \E r \in fetching : r.key = lastDone.key /\ r.start > lastDone.at

\* The upstream outcomes C19 calls failed or carrying an error.
failedOutcomes == {"network_error", "timeout", "invalid_json", "rpc_error"}

\* C19: every cache entry holds a successful upstream result, and an
\* upstream call that fails or answers with an error leaves the cache,
\* the entry of its own key included, as it was.
C19_OnlySuccessIsCached ==
  [][/\ \A i \in 1..Len(cache') : cache'[i].from = "result"
     /\ \A r \in fetching, o \in failedOutcomes :
          FetchDone(r, o) => cache' = cache]_vars

\* The entry of a key expired, the request that came to refresh it failed,
\* and the entry is still the one stored before.
C19_Witness ==
  /\ lastDone.outcome \in failedOutcomes
  /\ cacheIndex(cache, lastDone.key) # 0
  /\ lastDone.start - cache[cacheIndex(cache, lastDone.key)].ts
       >= ttlOf(lastDone.method)
  /\ cache[cacheIndex(cache, lastDone.key)].from = "result"

\* C20: the cache never holds more than 5000 entries; an insertion that
\* brings it above 5000 removes 500 entries in the same step and keeps the
\* entry just inserted.
C20_CacheBounded ==
  [][/\ cacheSize(cache') <= 5000
     /\ \A r \in fetching, o \in UpstreamOutcomes :
          (FetchDone(r, o) /\ cache' # cache
             /\ cacheIndex(cache, r.key) = 0 /\ cacheSize(cache) + 1 > 5000)
          => /\ cacheSize(cache') = cacheSize(cache) + 1 - 500
             /\ cacheIndex(cache', r.key) # 0]_vars

\* The last upstream result was inserted into a full cache: 500 entries
\* went and the new entry is the newest of the 4501 left.
C20_Witness ==
  /\ lastDone.outcome = "result"
  /\ cacheSize(cache) = 4501
  /\ cache[Len(cache)].key = lastDone.key

\* The register of connection c for wallet w is completed in this step.
registers(c, w) == regWait[c] = w /\ w # NoWallet /\ regWait'[c] = NoWallet
\* A source address is recorded for w, and it is (not) the one of c.
recordedIP(w) == w \in DOMAIN walletStats /\ walletStats[w].lastIP # NoIP
seededFrom(c, w, field) == node'[c].stats[field] = walletStats'[w][field]

\* C21: when wallet w registers from a source address different from the
\* one recorded for w, the new connection's avgLatencyMs and errors are 0
\* while its requestsHandled, cacheHits and cacheMisses equal the values of
\* WalletStats(w) and WalletStats(w).totalUptime is unchanged; when the
\* address is the same, all five counters are seeded from WalletStats(w).
C21_AddressChangeResetsPenalties ==
  [][\A c \in Conns, w \in Wallets :
       (registers(c, w) /\ recordedIP(w))
       => /\ seededFrom(c, w, "requestsHandled")
          /\ seededFrom(c, w, "cacheHits")
          /\ seededFrom(c, w, "cacheMisses")
          /\ walletStats'[w].totalUptime = walletStats[w].totalUptime
          /\ IF walletStats[w].lastIP # node[c].ip
             THEN /\ node'[c].stats.avgLatencyMs = 0
                  /\ node'[c].stats.errors = 0
             ELSE /\ seededFrom(c, w, "avgLatencyMs")
                  /\ seededFrom(c, w, "errors")]_vars

\* A wallet with errors, a latency and an uptime on record is registered
\* on a connection from another address than the recorded one, with clean
\* penalties and the record's request counters; no call went to it yet.
C21_Witness ==
  \E c \in registry :
    LET w == node[c].operator IN
    /\ w \in DOMAIN walletStats /\ walletStats[w].lastIP \notin {NoIP, node[c].ip}
    /\ walletStats[w].errors > 0 /\ walletStats[w].avgLatencyMs > 0
    /\ walletStats[w].totalUptime > 0
    /\ node[c].stats.errors = 0 /\ node[c].stats.avgLatencyMs = 0
    /\ node[c].stats.requestsHandled = walletStats[w].requestsHandled
    /\ node[c].stats.requestsHandled > 0
    /\ \A id \in CallIds : calls[id].node # c

\* A reconnect is scheduled in this step, d ms ahead.
scheduled(d) == connectTimers' = timerAdd(connectTimers, d)
\* The step is the close event of a socket that was opened to the current
\* relay: a failure against it.
failsAgainstCurrent ==
  CloseCurrent \/ \E r \in RelayIdx : r = currentRelayIndex /\ CloseSuperseded(r)

\* C22: the reconnect that follows a failure is scheduled
\* min(2000 * 2^(k-1), 30000) ms ahead, k being the consecutive failures
\* against the current relay (this one included); a reconnect attempt made
\* once k has reached 3 goes to the next relay of the list, (index + 1)
\* modulo its length, with k back to 0; and the relay index is always an
\* index of the list.
C22_BackoffAndRotation ==
  [][/\ currentRelayIndex' \in 0..2
     /\ failsAgainstCurrent
          => /\ failures' = failures + 1
             /\ scheduled(Min(2000 * 2^(failures' - 1), 30000))
     /\ (ConnectTimer /\ failures >= 3)
          => /\ currentRelayIndex' = (currentRelayIndex + 1) % 3
             /\ wsRelay' = currentRelayIndex'
             /\ failures' = 0]_vars

\* C23: when the periodic health check runs while the agent is connected and
\* no ping has been received for more than 60 seconds, that same step marks
\* the agent disconnected, closes the socket (its close event is still to
\* come) and opens a socket to the next relay of the list, index + 1 modulo
\* the list length, with the failure counter reset; no close event and no
\* reconnect timer is waited for.
staleAtCheck == healthIn = 0 /\ connected /\ lastPingAge > 60000

C23_StaleLinkRotates ==
  [][(HealthCheck /\ staleAtCheck)
       => /\ connected' = FALSE
          /\ superseded' = [superseded EXCEPT ![wsRelay] = @ + 1]
          /\ ws' = "connecting"
          /\ sockets' = sockets + 1
          /\ currentRelayIndex' = (currentRelayIndex + 1) % 3
          /\ wsRelay' = currentRelayIndex'
          /\ reconnectAttempts' = 0
          /\ failures' = 0
          /\ connectTimers' = connectTimers]_vars

\* The rotation has happened: a socket to the next relay is being opened
\* while the close event of the stale one has not been delivered.
C23_Witness ==
  /\ ws = "connecting"
  /\ wsRelay = 1
  /\ currentRelayIndex = 1
  /\ superseded[0] = 1
  /\ ~connected
  /\ lastPingAge > 60000
  /\ healthIn = 30000
  /\ reconnectAttempts = 0
  /\ connectTimers = <<>>
  /\ sockets = 2

\* C24: the agent never stalls while disconnected.  A health check that
\* finds the agent not connected more than 120 seconds after the last socket
\* open or ping starts a connection attempt whatever reconnect timers are
\* pending, and from every state in which the agent is not connected a new
\* connection attempt (a call of connect(), counted by sockets) is
\* eventually made, unless the agent becomes connected first.
overdueAtCheck == healthIn = 0 /\ ~connected /\ lastPingAge > 120000

C24_NeverStalls ==
  /\ [][(HealthCheck /\ overdueAtCheck)
          => /\ sockets' = sockets + 1
             /\ ws' = "connecting"
             /\ connectTimers' = connectTimers]_vars
  /\ \A k \in 0..(MaxSockets - 1) :
       (~connected /\ sockets = k) ~> (connected \/ sockets > k)

\* C25: every unexpected internal fault raised after startup, an uncaught
\* exception or an unhandled promise rejection alike, leaves the agent
\* process running (its state is kept) and schedules a reconnect attempt
\* 5 seconds later.
C25_FaultSchedulesReconnect ==
  [][faults' = faults + 1
       => /\ scheduled(5000)
          /\ UNCHANGED <<ws, wsRelay, connected, reconnectAttempts,
                         currentRelayIndex>>]_vars

\* C26: a save of the wallet stats that fails on the primary store writes
\* them to the flat-file fallback, and whatever the sequence of
\* primary-store failures, recoveries and hub restarts, the per-wallet
\* counters a starting hub loads are not lower than the values saved
\* successfully to either backend.
counterFields ==
  {"requestsHandled", "cacheHits", "cacheMisses", "errors", "totalUptime"}

\* A wallet without an entry starts from zero at its next registration.
loaded(w, f) == IF w \in DOMAIN walletStats' THEN walletStats'[w][f] ELSE 0

loadsAtLeast(saved) ==
  \A w \in DOMAIN saved, f \in counterFields : loaded(w, f) >= saved[w][f]

hubStarts == CrashRestart(TRUE) \/ CrashRestart(FALSE) \/ Shutdown

C26_FallbackNeverLowers ==
  [][/\ SaveWalletStats(TRUE) => statsFile' = walletStats
     /\ hubStarts => /\ loadsAtLeast(dbWalletStats')
                     /\ loadsAtLeast(statsFile')]_vars

\* C27: when a routed request resolves, with a result or with an error, the
\* durable record of the chosen node's operator holds the merged counters
\* by the end of that step, before any further event is processed, so that
\* a crash of the hub at any later point loses none of the wallet's
\* resolved requests.
resolves(id) == calls[id].phase = "inflight" /\ calls'[id].phase = "done"

requestCounters == {"requestsHandled", "cacheHits", "cacheMisses", "errors"}

C27_ResolvedRequestIsDurable ==
  [][\A id \in CallIds :
       LET c == calls[id].node
           w == node[c].operator
       IN (resolves(id) /\ w # NoWallet)
            => /\ w \in DOMAIN dbWalletStats'
               /\ \A f \in requestCounters :
                    dbWalletStats'[w][f] >= node'[c].stats[f]]_vars

\* C28: while one hub process runs, no counter of any wallet's entry
\* (requestsHandled, cacheHits, cacheMisses, errors, totalUptime) decreases,
\* whatever the interleaving of registrations, results, errors and timeouts
\* of routed calls, displacements and socket closes, calls completing on a
\* connection already displaced or closed included; and every merge of a
\* connection's counters sets the entry's counter to the larger of the
\* entry's value and the connection's value.
mergedFrom(w, st) ==
  w \in DOMAIN walletStats
    => \A f \in requestCounters :
         walletStats'[w][f] = Max(walletStats[w][f], st[f])

C28_CountersNeverDecrease ==
  [][/\ \A w \in DOMAIN walletStats :
          /\ w \in DOMAIN walletStats'
          /\ \A f \in counterFields : walletStats'[w][f] >= walletStats[w][f]
     /\ \A id \in CallIds :
          LET c == calls[id].node IN
          (resolves(id) /\ node[c].operator # NoWallet)
             => mergedFrom(node[c].operator, node'[c].stats)
     /\ \A c \in Conns :
          (CloseEvent(c) /\ node[c].operator # NoWallet)
             => mergedFrom(node[c].operator, node[c].stats)]_vars

\* A call has completed on a connection after its close handler ran, the
\* connection's counter being behind its wallet's entry.
C28_Witness ==
  \E id \in CallIds :
    LET c == calls[id].node IN
    /\ calls[id].phase = "done"
    /\ c \in Conns
    /\ sock[c] = "closed"
    /\ node[c].flushedAt >= 0
    /\ calls[id].replyAt > node[c].flushedAt
    /\ node[c].operator \in DOMAIN walletStats
    /\ node[c].stats.requestsHandled
         < walletStats[node[c].operator].requestsHandled
    /\ walletStats[node[c].operator].totalUptime > 0

\* C29: the node a routed call is sent to is one of the first
\* min(n, max(3, ceil(n/2))) of the n available candidates in ascending
\* order of effective latency (500 ms for a candidate with fewer than 5
\* requests handled, its average latency otherwise), and the round-robin
\* index used for the selection lies within that pool, also when the pool
\* has shrunk since the previous call.
sentNow(id) == calls[id].phase = "free" /\ calls'[id].phase = "inflight"

available ==
  SeqToSet(IF Len(healthyNodes) > 0 THEN healthyNodes ELSE candidateNodes)

poolSize ==
  LET n == Cardinality(available) IN
  IF 3 >= (n + 1) \div 2 THEN (IF n < 3 THEN n ELSE 3) ELSE (n + 1) \div 2

statedLatency(c) ==
  IF node[c].stats.requestsHandled < 5 THEN 500
  ELSE node[c].stats.avgLatencyMs

\* Fewer than poolSize candidates are strictly faster than c.
amongFastest(c) ==
  /\ c \in available
  /\ Cardinality({d \in available : statedLatency(d) < statedLatency(c)})
       < poolSize

dispatchedTo(c) == {i \in CallIds : calls[i].node = c}

allFailed(c) ==
  \A i \in dispatchedTo(c) : calls[i].phase = "done" /\ calls[i].reply # "200"

C30_FailedCallsCountAsAttempts ==
  [][\A id \in CallIds, c \in Conns :
       (/\ arrives(id)
        /\ Cardinality(dispatchedTo(c)) >= 5
        /\ allFailed(c)
        /\ \E d \in Conns \ {c} : eligibleConnection(d) /\ ~droppedByHealth(d))
         => calls'[id].node # c]_vars

\* C31: when eviction runs in the node agent's cache, the entries removed
\* are those with the oldest insertion timestamps: no entry that remains
\* has a timestamp older than that of a removed entry, whatever the history
\* of stores, re-stores of a key whose earlier entry had expired included.
RECURSIVE entriesAt(_, _)
entriesAt(c, t) ==
  IF c = <<>> THEN 0
  ELSE (IF Head(c).ts = t THEN Head(c).n ELSE 0) + entriesAt(Tail(c), t)

stamps(c) == {c[i].ts : i \in 1..Len(c)}

\* before is the cache after cache.set, after is what the eviction left.
oldestRemoved(before, after) ==
  \A removed \in stamps(before), kept \in stamps(after) :
    entriesAt(before, removed) > entriesAt(after, removed) => kept >= removed

C31_EvictionRemovesOldest ==
  [][/\ \A n \in OtherRuns :
          (HandleOthers(n) /\ cacheSize(cacheSetOthers(cache, n)) > 5000)
            => oldestRemoved(cacheSetOthers(cache, n), cache')
     /\ \A r \in fetching, o \in UpstreamOutcomes :
          LET set == cacheSet(cache, r.key,
                       [key |-> r.key, ts |-> now, from |-> o, n |-> 1])
          IN (FetchDone(r, o) /\ cache' # cache /\ cacheSize(set) > 5000)
               => oldestRemoved(set, cache')]_vars

\* C32: saving the wallet stats to the durable store and loading them back
\* when the hub starts again returns every field of every wallet unchanged,
\* the last known source address included.
C32_SaveLoadRoundTrip ==
  [][Shutdown => walletStats' = walletStats]_vars

\* C33: for one register message the hub sends exactly one of registered,
\* not_registered and auth_failed; a wallet that is not found or not active
\* on-chain receives not_registered and no registered message for that
\* request, so that the node agent's connected flag stays false for it.
C33_ExactlyOneReply ==
  [][\A c \in Conns :
       /\ sent'[c] # sent[c] => Cardinality(sent'[c]) = 1
       /\ (RegisterFinish(c) /\ regWait[c] \notin onChainActive)
            => /\ sent'[c] = {"not_registered"}
               /\ ~connectedAfter(sent'[c])]_vars

\* C34: in every reachable state of the hub, for every wallet W,
\* nodesByWallet[W] is defined exactly when the registry holds a connection
\* whose operator is W, and it then names that connection: no admitted
\* connection lacks its wallet's mapping, and no mapping names a missing
\* connection or a connection of another wallet.
C34_WalletMappingMatchesRegistry ==
  \A w \in Wallets :
    /\ (w \in DOMAIN nodesByWallet)
         <=> (\E c \in registry : node[c].operator = w)
    /\ w \in DOMAIN nodesByWallet
         => /\ nodesByWallet[w] \in registry
            /\ node[nodesByWallet[w]].operator = w

\* C35: every connection of the registry has a socket whose close event
\* has not been handled yet: a socket that closes while its register
\* message awaits the on-chain verification is not added to the registry
\* afterwards, and so neither displaces its wallet's connection nor is
\* selected for a routed call.
C35_RegistryHoldsLiveSockets ==
  \A c \in registry : sock[c] \in {"open", "closing"}

\* C36: every register message a node sends on a newly opened socket is
\* eventually processed by the hub and answered with registered,
\* not_registered or auth_failed, also when it arrives while the hub is
\* still performing the geolocation lookup for that connection.
C36_RegisterIsAnswered ==
  \A c \in Conns : (registerMsg[c] = "sent") ~> (sent[c] # {})

\* C37: a socket opened by the shipped node client for a wallet that is
\* active and bonded on-chain, to a hub with registration required,
\* eventually becomes registered and eligible for routed traffic: its
\* register message passes the hub's authentication checks.
C37_ClientBecomesRegistered ==
  \A c \in Conns :
    (sock[c] = "open" /\ sent[c] = {})
      ~> (node[c].isRegistered /\ "registered" \in sent[c])

\* C38: the late close event of a socket that connect() has replaced
\* leaves the agent's link as it is: it does not mark the agent
\* disconnected, does not count as a failed attempt, schedules no reconnect
\* and does not touch the current socket, so that an agent connected to a
\* healthy relay stays connected with no reconnect pending.
supersededCloses == \E r \in RelayIdx : superseded'[r] < superseded[r]

C38_SupersededCloseIsIgnored ==
  [][supersededCloses
       => /\ connected' = connected
          /\ reconnectAttempts' = reconnectAttempts
          /\ connectTimers' = connectTimers
          /\ ws' = ws
          /\ wsRelay' = wsRelay]_vars

\* C39: while the current relay accepts each socket and closes it without
\* registering the agent, the consecutive failures keep counting: the k-th
\* close in a row schedules the reconnect min(2000 * 2^(k-1), 30000) ms
\* ahead, and the attempt that follows the third goes to the next relay of
\* the list.  With such a relay every socket the agent opened has failed,
\* so k is the number of sockets opened.
acceptedSocketCloses == ws = "open" /\ ws' = "closed"

C39_RejectionsBackOffAndRotate ==
  /\ [][(acceptedSocketCloses /\ sockets <= 3)
          => scheduled(Min(2000 * 2^(sockets - 1), 30000))]_vars
  /\ [](sockets > 3 => currentRelayIndex = 1)

\* C40: a routed call that succeeds adds one to exactly one of its node's
\* cacheHits and cacheMisses: to cacheHits when the node's rpc_response
\* reports cached = true (the agent answered from its cache), to
\* cacheMisses when the agent fetched the answer upstream.
succeeds(id) == resolves(id) /\ calls'[id].reply = "200"

C40_CacheCountersFollowAgent ==
  [][\A id \in CallIds :
       succeeds(id) =>
         LET c == calls[id].node
             hit == IF calls'[id].response = "cache_hit" THEN 1 ELSE 0
         IN /\ node'[c].stats.cacheHits = node[c].stats.cacheHits + hit
            /\ node'[c].stats.cacheMisses
                 = node[c].stats.cacheMisses + (1 - hit)]_vars
====
